---- MODULE Spec2Model ----
(***************************************************************************)
(* MyBeatSaberStats: the cross-service reconciliation and caching          *)
(* pipeline (src/mybeatsaberstats), as state machines.                      *)
(*                                                                          *)
(*   SpecFetch : beatleader.fetch_players_ranking, one call, page by page   *)
(*   SpecRank  : collector.ensure_global_rank_caches, one call, with the    *)
(*               BeatLeader pagination of SpecFetch inside it               *)
(*   SpecSnap  : collector.create_snapshot_for_steam_id, one call, with     *)
(*               the ranking refresh of SpecRank inside it                  *)
(*   SpecIndex : collector.rebuild_player_index_from_global, one call       *)
(*   SpecDisk  : collector._save_list_cache, the write of a cache file      *)
(*   SpecParse : the parsing of one ranking page by the three clients       *)
(*   SpecCatalog : the ranked-chart catalog getters of both services        *)
(*   SpecScores : collector.scoresaber._get_scoresaber_player_scores with   *)
(*               a cache                                                    *)
(*   SpecAccRank : the AccSaber country ranks of a snapshot (_rank_for)     *)
(*   SpecStars : the star-tier aggregators of both services                 *)
(*   SpecAccuracy : the accuracy extractors of both services                *)
(*   SpecLoad  : Snapshot.load, Snapshot.save and the load of the saved     *)
(*               file                                                       *)
(*   SpecBlScores : collector.beatleader._get_beatleader_player_scores,     *)
(*               called again and again over its cache                      *)
(*   SpecRefresh : the ranking refresh of SpecSnap with every request       *)
(*               answered successfully                                      *)
(***************************************************************************)
EXTENDS Integers, Sequences, FiniteSets, TLC

(***************************************************************************)
(* Bounds of the model.                                                     *)
(***************************************************************************)
\* the services' players have pp 3000, 4000, ... (MaxPP levels); the player
\* with pp k*1000 has the id k
MaxPP == 4
\* the page_size argument of fetch_players_ranking (100 in the program) and
\* the page length of the ScoreSaber service
PageSize == 2
\* the max_pages argument ranges over 1..MaxPagesArg (200 in the program)
MaxPagesArg == 2

(***************************************************************************)
(* Program constants.                                                       *)
(***************************************************************************)
\* beatleader.py:137  if retries >= 3
TimeoutRetryCap == 3
\* beatleader.py:165  if retries >= 5
RateLimitRetryCap == 5
\* collector.py:53
SCORESABER_MIN_PP_GLOBAL == 4000
\* collector.py:54
BEATLEADER_MIN_PP_GLOBAL == 5000
\* accsaber.py:22
ACCSABER_MIN_AP_GLOBAL == 0
\* accsaber.py:26
ACCSABER_MIN_AP_SKILL == 0

VARIABLES
    \* ---- the progress callback handed in by the caller
    signalled,      \* it has raised the cancellation signal
    sticky,         \* once it has raised, it raises at every later invocation
                    \* (a dialog's wasCanceled); otherwise it raises once
    \* ---- the services
    svc,            \* the BeatLeader ranking (pp descending)
    ssSvc,          \* the ScoreSaber ranking (pp descending)
    accSvc,         \* the AccSaber overall standings
    \* ---- the cache directory: a file is <<>> (absent) or <<content>>
    accFile,        \* accsaber_ranking.json
    ssFile,         \* scoresaber_ranking.json
    blFile,         \* beatleader_ranking.json
    idxFile,        \* players_index.json
    \* ---- fetch_players_ranking
    min_pp,         \* argument
    max_pages,      \* argument
    page,           \* loop variable
    retries,        \* the shared retry counter of the current page
    pageReqs,       \* requests issued for the current page
    requestAfterSignal, \* a page request went out after the callback raised
    players,        \* the accumulated result
    fpc,            \* position: "idle", "progress", "request", "done"
    fresult,        \* "none", "returned", "raised"
    allOk,          \* every request so far was answered 200 with a well-formed body
    capHit,         \* the call ended on a retry cap
    \* ---- ensure_global_rank_caches
    epc,            \* position
    eresult,        \* "none", "returned", "raised"
    esteam,         \* the steam_id argument (0: None)
    acc_players,    \* local list
    enrichSkill,    \* which of true / standard / tech is being filled in (1..3)
    loopPage,       \* the page of the AccSaber / ScoreSaber loop at hand
    ss_players,     \* local list
    target_country, \* "" for None
    \* ---- create_snapshot_for_steam_id
    spc,            \* position
    sresult,        \* "none", "returned", "failed", "cancelled"
    steam,          \* the steam_id argument
    ss,             \* the player's ScoreSaber record, <<>> for None
    bl,             \* the player's BeatLeader record, <<>> for None
    ss_stats,       \* the ScoreSaber stats came back
    bl_stats,       \* the BeatLeader stats came back
    accSkill,       \* which of the True / Standard / Tech lookups is at hand
    now,            \* the clock's second, as last read
    snapFiles,      \* the snapshot directory: file name -> content
    \* ---- _save_list_cache, one write of scoresaber_ranking.json
    wpc,            \* position: "idle", "serialised", "open"
    wresult,        \* "none", "saved", "failed"
    wprev,          \* the file before the save at hand
    wnew,           \* the list being saved
    torn,           \* the file holds a strict prefix of the text being written
    \* ---- one page of a leaderboard client being parsed
    pclient,        \* "accsaber", "scoresaber", "beatleader"
    entries,        \* the entries of the page, by kind
    ppc,            \* position: "idle", "parse", "done"
    presult,        \* "none", "returned", "raised"
    parsed,         \* the positions of the entries the client returned
    \* ---- a ranked-catalogue getter, one call
    cservice,       \* "scoresaber" or "beatleader"
    catalog,        \* the service's ranked charts, by id, in service order
    catFile,        \* the cache file: [kind, charts, total]
    catFile0,       \* the cache file before the call
    cpc,            \* position: "idle", "load", "meta", "page", "save", "done"
    cresult,        \* "none", "returned", "raised"
    returned,       \* the list the getter returned
    creqs,          \* HTTP requests sent by the call
    cok,            \* every request so far was answered 200
    cwritten,       \* the call wrote the cache file
    hadCache,       \* the loader returned a list
    leaderboards,   \* local: the charts in hand
    appended,       \* local: append_leaderboards (ScoreSaber)
    cpage,          \* local: the page being requested
    cachedTotal,    \* local: cached_total
    latestTotal,    \* local: latest_total / new_total of the metadata
    totalPages,     \* local: total_pages_new (ScoreSaber)
    \* ---- _get_scoresaber_player_scores, one call with a cache
    history,        \* the service's scores of the player: timeSet, newest first
    scFile,         \* the cache file: [fetched_at, pages]
    scFile0,        \* the cache file before the call
    scpc,           \* position: "idle", "check", "page", "merge", "done"
    sreqs,          \* HTTP requests sent by the call
    checkOk,        \* the check request was answered 200
    staleSeen,      \* a page answered 200 had no record newer than fetched_at
    new_pages,      \* local: the pages fetched by the refresh
    page_num,       \* local: the page of the refresh loop
    scWritten,      \* the call wrote the cache file
    scores,         \* the list the getter returned
    \* ---- the AccSaber country ranks of create_snapshot_for_steam_id
    acc_ranking,    \* the cached AccSaber ranking (accsaber_ranking.json)
    ss_country_by_id, \* ScoreSaber id -> country of the player index, "" for no entry
    scoresaber_id,  \* the target's ScoreSaber id
    scoresaber_country, \* the target's country, "" for None
    rkpc,           \* position: "idle", "rank", "done"
    same_country_players, \* local: the cached players of the target's country
    players_sorted, \* local of _rank_for, per category; <<>> when it did not sort
    acc_rank_country, \* the acc_*_rank_country of the snapshot, per category
    \* ---- the star-tier aggregators, one call
    aggregator,     \* "scoresaber" or "beatleader"; "" while idle
    ranked_maps,    \* the catalog the ranked-leaderboards getter returned
    played,         \* the play history the player-scores getter returned
    stpc,           \* position: "idle", "collect", "done"
    star_map_count, \* local: tier -> number of charts
    per_leaderboard, \* local: chart id -> [star, clear, nf, ss]
    stats,          \* the result: tier -> StarClearStat; <<>> for []
    \* ---- the accuracy extractors, one call
    extractor,      \* "scoresaber" or "beatleader"; "" while idle
    score_info,     \* the score record: a value per key
    xpc,            \* position: "idle", "extract", "done"
    extracted,      \* the returned accuracy in hundredths of a percent, None for None
    \* Snapshot.load / Snapshot.save (snapshot.py:135-227)
    snap_json,      \* the JSON document of the snapshot file that is loaded
    lpc,            \* "idle", "load", "save", "reload", "done", "failed"
    loaded,         \* the Snapshot that load returned
    saved_json,     \* the JSON document that save wrote
    reloaded,       \* the Snapshot that the second load returned
    \* _get_beatleader_player_scores (collector/beatleader.py:292-454)
    bl_server,      \* the player's scores as the service lists them during the call
    blScFile,        \* the cache file beatleader_player_scores_<id>.json
    blScFile0,        \* the cache file when the present call began
    blpc,           \* "idle", "page", "save", "done"
    cached_scores,  \* the map loaded from the cache
    scores_by_lb_id,
    bl_page,        \* the local variable page
    total_play_count_target,
    bl_returned,    \* the returned list
    bl_raised       \* the call left with an exception

cbVars == <<signalled, sticky>>
svcVars == <<svc, ssSvc, accSvc>>
rankFiles == <<accFile, ssFile, blFile>>
diskVars == <<rankFiles, idxFile>>
fetchVars == <<min_pp, max_pages, page, retries, pageReqs, players,
               fpc, fresult, allOk, capHit>>
ensureVars == <<epc, eresult, esteam, acc_players, enrichSkill, loopPage,
                ss_players, target_country>>
snapVars == <<spc, sresult, steam, ss, bl, ss_stats, bl_stats, accSkill, now, snapFiles>>
writeVars == <<wpc, wresult, wprev, wnew, torn>>
parseVars == <<pclient, entries, ppc, presult, parsed>>
catVars == <<cservice, catalog, catFile, catFile0, cpc, cresult, returned, creqs, cok,
             cwritten, hadCache, leaderboards, appended, cpage, cachedTotal, latestTotal,
             totalPages>>
scoreVars == <<history, scFile, scFile0, scpc, sreqs, checkOk, staleSeen, new_pages,
               page_num, scWritten, scores>>
accRankVars == <<acc_ranking, ss_country_by_id, scoresaber_id, scoresaber_country, rkpc,
                 same_country_players, players_sorted, acc_rank_country>>
starVars == <<aggregator, ranked_maps, played, stpc, star_map_count, per_leaderboard, stats>>
extractVars == <<extractor, score_info, xpc, extracted>>
loadVars == <<snap_json, lpc, loaded, saved_json, reloaded>>
blScoreVars == <<bl_server, blScFile, blScFile0, blpc, cached_scores, scores_by_lb_id, bl_page,
                 total_play_count_target, bl_returned, bl_raised>>
tailVars == <<extractVars, loadVars, blScoreVars>>
midVars == <<parseVars, catVars, scoreVars, accRankVars, starVars>>
lateVars == <<accRankVars, starVars, tailVars>>
moreVars == <<parseVars, catVars, scoreVars, lateVars>>
coreVars == <<cbVars, svcVars, diskVars, fetchVars, requestAfterSignal, ensureVars, snapVars,
              writeVars>>
vars == <<coreVars, moreVars>>

Min(a, b) == IF a < b THEN a ELSE b
Max(a, b) == IF a > b THEN a ELSE b

None == <<>>
Some(x) == <<x>>
Exists(f) == f # <<>>

(***************************************************************************)
(* The services.  Both rankings are asked in descending pp order; a         *)
(* service holds its players in strictly descending pp order and cuts them  *)
(* into pages.  A player has the same (Steam) id on every service.          *)
(***************************************************************************)
PPLevels == {1000 * k : k \in 3..(2 + MaxPP)}
PlayerIds == {pp \div 1000 : pp \in PPLevels}

CountryOfId(id) == IF id <= 5 THEN "JP" ELSE "US"

\* display names: the players of one country differ only in case and punctuation
NameOfId(id) ==
    IF id = 3 THEN "Marsh_era"
    ELSE IF id = 4 THEN "marsh-era"
    ELSE IF id = 5 THEN "MarshEra"
    ELSE IF id % 2 = 0 THEN "A-tach" ELSE "atach"

BLRecord(pp) ==
    [id |-> pp \div 1000, name |-> NameOfId(pp \div 1000),
     country |-> CountryOfId(pp \div 1000), pp |-> pp]

SSRecord(pp) ==
    [id |-> pp \div 1000, name |-> NameOfId(pp \div 1000),
     country |-> CountryOfId(pp \div 1000), pp |-> pp]

\* an entry of the overall standings; the category APs are filled in later
AccRecord(id) ==
    [scoresaber_id |-> id, total_ap |-> 1000 * id,
     true_ap |-> 0, standard_ap |-> 0, tech_ap |-> 0]

\* the category standings (1: True, 2: Standard, 3: Tech) hold the players
\* who have played the category: the players with an odd id have no Tech AP
HasSkill(id, k) == ~(k = 3 /\ id % 2 = 1)
SkillAP(id, k) == 100 * id + k

SetMax(S) == CHOOSE m \in S : \A x \in S : x <= m

RECURSIVE DescendingOf(_)
DescendingOf(S) ==
    IF S = {} THEN <<>>
    ELSE LET m == SetMax(S) IN <<m>> \o DescendingOf(S \ {m})

MapSeq(s, F(_)) == [i \in 1..Len(s) |-> F(s[i])]

BLServices == {MapSeq(DescendingOf(S), BLRecord) : S \in SUBSET PPLevels}
SSServices == {MapSeq(DescendingOf(S), SSRecord) : S \in SUBSET PPLevels}
AccServices == {MapSeq(DescendingOf(S), AccRecord) : S \in SUBSET PlayerIds}

PageItems(s, p) ==
    SubSeq(s, (p - 1) * PageSize + 1, Min(p * PageSize, Len(s)))

\* what the server does with one request of fetch_players_ranking
ServerBehaviours == {"ok", "429", "timeout", "connerr", "status", "badjson", "badshape"}

(***************************************************************************)
(* The progress callback: callback(message, fraction).  Before it has       *)
(* raised it may raise at any invocation; after that it raises again        *)
(* exactly when it is sticky.                                               *)
(***************************************************************************)
RaiseOptions == IF signalled THEN {sticky} ELSE {TRUE, FALSE}

Invoke(raise) ==
    /\ raise \in RaiseOptions
    /\ signalled' = (signalled \/ raise)
    /\ UNCHANGED sticky

\* a page request goes out
CountRequest ==
    requestAfterSignal' = (requestAfterSignal \/ signalled)

(***************************************************************************)
(* fetch_players_ranking (beatleader.py:73-239)                             *)
(***************************************************************************)
\* line 205: if min_pp > 0 and pp < min_pp: continue
SkipsPlayerMutant(pp, minpp) == minpp > 0 /\ pp <= minpp
SkipsPlayer(pp, minpp) == minpp > 0 /\ pp < minpp

\* lines 200-220: the players of one page that are kept
KeptOfPage(items, minpp) == SelectSeq(items, LAMBDA p : ~SkipsPlayer(p.pp, minpp))

\* lines 224-231: the page's last record is below the threshold
BelowThreshold(items, minpp) ==
    minpp > 0 /\ items[Len(items)].pp < minpp

\* line 137
TimeoutCapReached(r) == r >= TimeoutRetryCap

\* line 165
RateLimitCapReachedMutant(r) == r >= RateLimitRetryCap + 1
RateLimitCapReached(r) == r >= RateLimitRetryCap

\* lines 116-120: an exception of the progress callback is caught and dropped
FetchSwallowsCallbackError == TRUE

\* lines 99-113: the call's entry
FetchStart(t, m) ==
    /\ min_pp' = t
    /\ max_pages' = m
    /\ page' = 1
    /\ retries' = 0
    /\ pageReqs' = 0
    /\ players' = <<>>
    /\ fpc' = "progress"
    /\ fresult' = "none"
    /\ allOk' = TRUE
    /\ capHit' = FALSE

\* lines 114-125: the head of the page loop
FetchProgress(raise) ==
    /\ fpc = "progress"
    /\ Invoke(raise)
    /\ IF raise /\ ~FetchSwallowsCallbackError
       THEN /\ fpc' = "done"
            /\ fresult' = "raised"
            /\ UNCHANGED <<retries, pageReqs>>
       ELSE /\ fpc' = "request"
            /\ retries' = 0
            /\ pageReqs' = 0
            /\ UNCHANGED fresult
    /\ UNCHANGED <<min_pp, max_pages, page, requestAfterSignal,
                   players, allOk, capHit>>
    /\ UNCHANGED <<svcVars, diskVars, ensureVars, snapVars, writeVars, moreVars>>

FetchEnd(res, cap) ==
    /\ fpc' = "done"
    /\ fresult' = res
    /\ capHit' = cap

\* lines 126-237: one request of the retry loop and, on 200, the page's processing
FetchRequest(r) ==
    /\ fpc = "request"
    /\ pageReqs' = pageReqs + 1
    /\ CountRequest
    /\ allOk' = (allOk /\ r = "ok")
    /\ UNCHANGED <<cbVars, min_pp, max_pages, moreVars>>
    /\ UNCHANGED <<svcVars, diskVars, ensureVars, snapVars, writeVars, moreVars>>
    /\ CASE r = "timeout" ->
              /\ retries' = retries + 1
              /\ IF TimeoutCapReached(retries + 1)
                 THEN FetchEnd("returned", TRUE)
                 ELSE UNCHANGED <<fpc, fresult, capHit>>
              /\ UNCHANGED <<page, players>>
         [] r = "connerr" ->
              /\ FetchEnd("returned", FALSE)
              /\ UNCHANGED <<page, players, retries>>
         [] r = "429" ->
              /\ retries' = retries + 1
              /\ IF RateLimitCapReached(retries + 1)
                 THEN FetchEnd("returned", TRUE)
                 ELSE UNCHANGED <<fpc, fresult, capHit>>
              /\ UNCHANGED <<page, players>>
         [] r = "status" ->
              /\ FetchEnd("returned", FALSE)
              /\ UNCHANGED <<page, players, retries>>
         [] r = "badjson" ->
              /\ FetchEnd("returned", FALSE)
              /\ UNCHANGED <<page, players, retries>>
         [] r = "badshape" ->
              \* line 195: data.get on a body that is no object raises
              /\ FetchEnd("raised", FALSE)
              /\ UNCHANGED <<page, players, retries>>
         [] r = "ok" ->
              LET items == PageItems(svc, page) IN
              /\ UNCHANGED retries
              /\ IF items = <<>>
                 THEN /\ FetchEnd("returned", FALSE)
                      /\ UNCHANGED <<page, players>>
                 ELSE /\ players' = players \o KeptOfPage(items, min_pp)
                      /\ IF \/ BelowThreshold(items, min_pp)
                            \/ Len(items) < PageSize
                            \/ page = max_pages
                         THEN /\ FetchEnd("returned", FALSE)
                              /\ UNCHANGED page
                         ELSE /\ page' = page + 1
                              /\ fpc' = "progress"
                              /\ UNCHANGED <<fresult, capHit>>

FetchCallbackStep == \E raise \in BOOLEAN : FetchProgress(raise)
FetchServerStep == \E r \in ServerBehaviours : FetchRequest(r)

InitCallback ==
    /\ signalled = FALSE
    /\ sticky \in BOOLEAN

IdleDisk ==
    /\ accFile = None
    /\ ssFile = None
    /\ blFile = None
    /\ idxFile = None

IdleEnsure ==
    /\ epc = "idle"
    /\ eresult = "none"
    /\ esteam = 0
    /\ acc_players = <<>>
    /\ enrichSkill = 1
    /\ loopPage = 1
    /\ ss_players = <<>>
    /\ target_country = ""

NoFiles == [path \in {} |-> <<>>]

IdleSnap ==
    /\ spc = "idle"
    /\ sresult = "none"
    /\ steam = 0
    /\ ss = None
    /\ bl = None
    /\ ss_stats = FALSE
    /\ bl_stats = FALSE
    /\ accSkill = 1
    /\ now = 1
    /\ snapFiles = NoFiles

IdleWrite ==
    /\ wpc = "idle"
    /\ wresult = "none"
    /\ wprev = None
    /\ wnew = <<>>
    /\ torn = FALSE

IdleParse ==
    /\ pclient = ""
    /\ entries = <<>>
    /\ ppc = "idle"
    /\ presult = "none"
    /\ parsed = <<>>

NoCatFile == [kind |-> "absent", charts |-> <<>>, total |-> 0]

IdleCatalog ==
    /\ cservice = ""
    /\ catalog = <<>>
    /\ catFile = NoCatFile
    /\ catFile0 = NoCatFile
    /\ cpc = "idle"
    /\ cresult = "none"
    /\ returned = <<>>
    /\ creqs = 0
    /\ cok = TRUE
    /\ cwritten = FALSE
    /\ hadCache = FALSE
    /\ leaderboards = <<>>
    /\ appended = <<>>
    /\ cpage = 1
    /\ cachedTotal = 0
    /\ latestTotal = 0
    /\ totalPages = 0

NoScoreFile == [fetched_at |-> 0, pages |-> <<>>]

IdleScores ==
    /\ history = <<>>
    /\ scFile = NoScoreFile
    /\ scFile0 = NoScoreFile
    /\ scpc = "idle"
    /\ sreqs = 0
    /\ checkOk = FALSE
    /\ staleSeen = FALSE
    /\ new_pages = <<>>
    /\ page_num = 1
    /\ scWritten = FALSE
    /\ scores = <<>>

\* the categories of the country rank: the getters of collector.py:1477-1480
\* (standard_ap and tech_ap go through the same _rank_for as true_ap)
RankCategories == {"total_ap", "true_ap"}

IdleAccRank ==
    /\ acc_ranking = <<>>
    /\ ss_country_by_id = <<>>
    /\ scoresaber_id = ""
    /\ scoresaber_country = ""
    /\ rkpc = "idle"
    /\ same_country_players = <<>>
    /\ players_sorted = [c \in RankCategories |-> <<>>]
    /\ acc_rank_country = [c \in RankCategories |-> None]

IdleStars ==
    /\ aggregator = ""
    /\ ranked_maps = <<>>
    /\ played = <<>>
    /\ stpc = "idle"
    /\ star_map_count = <<>>
    /\ per_leaderboard = <<>>
    /\ stats = <<>>

IdleExtract ==
    /\ extractor = ""
    /\ score_info = <<>>
    /\ xpc = "idle"
    /\ extracted = None

IdleLoad ==
    /\ snap_json = <<>>
    /\ lpc = "idle"
    /\ loaded = <<>>
    /\ saved_json = <<>>
    /\ reloaded = <<>>

IdleBlScores ==
    /\ bl_server = <<>>
    /\ blScFile = <<>>
    /\ blScFile0 = <<>>
    /\ blpc = "idle"
    /\ cached_scores = <<>>
    /\ scores_by_lb_id = <<>>
    /\ bl_page = 1
    /\ total_play_count_target = None
    /\ bl_returned = <<>>
    /\ bl_raised = FALSE

IdleTail == IdleExtract /\ IdleLoad /\ IdleBlScores

IdleMid == IdleParse /\ IdleCatalog /\ IdleScores /\ IdleAccRank /\ IdleStars

IdleLate == IdleAccRank /\ IdleStars /\ IdleTail

IdleMore == IdleParse /\ IdleCatalog /\ IdleScores /\ IdleLate

IdleFetch ==
    /\ min_pp = 0
    /\ max_pages = 1
    /\ page = 1
    /\ retries = 0
    /\ pageReqs = 0
    /\ players = <<>>
    /\ fpc = "idle"
    /\ fresult = "none"
    /\ allOk = TRUE
    /\ capHit = FALSE

InitFetch ==
    /\ InitCallback
    /\ svc \in BLServices
    /\ ssSvc = <<>>
    /\ accSvc = <<>>
    /\ IdleDisk
    /\ IdleEnsure
    /\ IdleSnap
    /\ IdleWrite
    /\ IdleMore
    /\ min_pp \in {0} \cup PPLevels
    /\ max_pages \in 1..MaxPagesArg
    /\ page = 1
    /\ retries = 0
    /\ pageReqs = 0
    /\ requestAfterSignal = FALSE
    /\ players = <<>>
    /\ fpc = "progress"
    /\ fresult = "none"
    /\ allOk = TRUE
    /\ capHit = FALSE

NextFetch ==
    \/ FetchCallbackStep
    \/ FetchServerStep

SpecFetch == InitFetch /\ [][NextFetch]_vars

(***************************************************************************)
(* players_index.json and its rebuild (collector.py:99-139)                 *)
(***************************************************************************)
\* line 106-107: lower-case, alphanumerics only
NormName(name) ==
    IF name \in {"Marsh_era", "marsh-era", "MarshEra"} THEN "marshera" ELSE "atach"

SeqRange(s) == {s[i] : i \in 1..Len(s)}

\* the cached list of a ranking file, [] when the file is absent
CachedList(f) == IF Exists(f) THEN f[1] ELSE <<>>

\* lines 133-138: the ScoreSaber players grouped by normalized name and country
SsByNameCountry(ss_global) ==
    [key \in {<<NormName(p.name), p.country>> : p \in SeqRange(ss_global)} |->
        SelectSeq(ss_global, LAMBDA p : <<NormName(p.name), p.country>> = key)]

IndexEntry(s, b) == [scoresaber |-> s, beatleader |-> b]

\* an index that links every BeatLeader player to the ScoreSaber player of
\* the same normalized name and country when the ids differ
IndexLinkedByName(ss_global, bl_global) ==
    LET groups == SsByNameCountry(ss_global)
        LinkOf(p) ==
            LET key == <<NormName(p.name), p.country>>
                same == {b \in SeqRange(bl_global) : b.id = p.id}
                named == {b \in SeqRange(bl_global) :
                             b.id # p.id /\ <<NormName(b.name), b.country>> = key}
            IN  IF same # {} THEN Some(CHOOSE b \in same : TRUE)
                ELSE IF named # {} THEN Some(CHOOSE b \in named : TRUE)
                ELSE None
    IN  [id \in {p.id : p \in SeqRange(ss_global)} |->
            LET p == CHOOSE q \in SeqRange(ss_global) : q.id = id
            IN  IndexEntry(Some(p), LinkOf(p))]

RebuiltIndexFileMutant(ss_global, bl_global, old) ==
    Some(IndexLinkedByName(ss_global, bl_global))

\* lines 109-138: both caches are loaded and the name+country map is built;
\* the function ends there: `index` stays empty and nothing is written, so
\* players_index.json is what it was
RebuiltIndexFile(ss_global, bl_global, old) ==
    IF DOMAIN SsByNameCountry(ss_global) = {} THEN old ELSE old

(***************************************************************************)
(* ensure_global_rank_caches (collector.py:214-456)                         *)
(***************************************************************************)
\* line 244
AllRankFilesExist == Exists(ssFile) /\ Exists(blFile) /\ Exists(accFile)

\* lines 250-255: _accsaber_profile_exists is asked only for a given player
ProfileOptions == IF esteam = 0 THEN {TRUE} ELSE {TRUE, FALSE}

\* lines 361-397: from the index entry, else from a direct fetch, else None
CountryOptions ==
    IF esteam = 0 THEN {""}
    ELSE IF Exists(idxFile) /\ esteam \in DOMAIN idxFile[1]
         THEN {CountryOfId(esteam)}
         ELSE {"", CountryOfId(esteam)}

\* the country argument of the ScoreSaber request (scoresaber.py:33-36)
OfCountry(s, c) == IF c = "" THEN s ELSE SelectSeq(s, LAMBDA p : p.country = c)

\* lines 410-415
SsKeptOfPage(items, c) ==
    SelectSeq(items, LAMBDA p : (c = "" \/ p.country = c)
                                /\ p.pp >= SCORESABER_MIN_PP_GLOBAL)

\* line 339: setattr(target, attr_name, ...)
SetSkill(p, k, v) ==
    IF k = 1 THEN [p EXCEPT !.true_ap = v]
    ELSE IF k = 2 THEN [p EXCEPT !.standard_ap = v]
    ELSE [p EXCEPT !.tech_ap = v]

\* lines 323-340: the players found on the skill page get the skill's AP
Enriched(ps, k) ==
    [i \in 1..Len(ps) |->
        IF HasSkill(ps[i].scoresaber_id, k)
        THEN SetSkill(ps[i], k, SkillAP(ps[i].scoresaber_id, k))
        ELSE ps[i]]

\* lines 307, 340: the ids still without the skill's AP after page 1
RemainingIds(ps, k) ==
    {ps[i].scoresaber_id : i \in 1..Len(ps)} \ {id \in PlayerIds : HasSkill(id, k)}

EnsureEnd(res) ==
    /\ epc' = "done"
    /\ eresult' = res

\* lines 232-258
EnsureBegin(prof) ==
    /\ epc = "start"
    /\ prof \in ProfileOptions
    /\ IF esteam = 0 /\ AllRankFilesExist
       THEN /\ EnsureEnd("returned")
            /\ UNCHANGED loopPage
       ELSE /\ epc' = IF esteam # 0 /\ ~prof THEN "country" ELSE "acc_step"
            /\ loopPage' = 1
            /\ UNCHANGED eresult
    /\ acc_players' = <<>>
    /\ UNCHANGED <<esteam, enrichSkill, ss_players, target_country>>
    /\ UNCHANGED <<cbVars, svcVars, diskVars, fetchVars, requestAfterSignal, snapVars, writeVars, moreVars>>

\* line 280, and for page 2 lines 282-284 and 296-314: fetch_overall answers
\* [] for every page after the first without a request
AccStep(raise) ==
    /\ epc = "acc_step"
    /\ Invoke(raise)
    /\ IF raise
       THEN /\ epc' = "acc_failed"
            /\ UNCHANGED <<enrichSkill, loopPage>>
       ELSE IF loopPage = 1
       THEN /\ epc' = "acc_fetch"
            /\ UNCHANGED <<enrichSkill, loopPage>>
       ELSE /\ epc' = "enrich_step"
            /\ enrichSkill' = 1
            /\ loopPage' = 1
    /\ UNCHANGED <<eresult, esteam, acc_players, ss_players, target_country>>
    /\ UNCHANGED <<svcVars, diskVars, fetchVars, requestAfterSignal, snapVars, writeVars, moreVars>>

\* lines 282-293 for page 1; an empty first page runs on to the save of line 356
AccFetch(out) ==
    /\ epc = "acc_fetch"
    /\ CountRequest
    /\ CASE out = "error" ->
              /\ epc' = "acc_failed"
              /\ UNCHANGED <<acc_players, loopPage, accFile>>
         [] out = "ok" /\ accSvc = <<>> ->
              /\ accFile' = Some(<<>>)
              /\ epc' = "country"
              /\ UNCHANGED <<acc_players, loopPage>>
         [] out = "ok" /\ accSvc # <<>> ->
              /\ acc_players' = SelectSeq(accSvc,
                                    LAMBDA p : p.total_ap >= ACCSABER_MIN_AP_GLOBAL)
              /\ loopPage' = 2
              /\ epc' = "acc_step"
              /\ UNCHANGED accFile
    /\ UNCHANGED <<eresult, esteam, enrichSkill, ss_players, target_country>>
    /\ UNCHANGED <<cbVars, svcVars, ssFile, blFile, idxFile, fetchVars, snapVars, writeVars, moreVars>>

\* the end of one _enrich_skill call: the next skill, or lines 354-356
EnrichNext(ps) ==
    IF enrichSkill < 3
    THEN /\ enrichSkill' = enrichSkill + 1
         /\ loopPage' = 1
         /\ epc' = "enrich_step"
         /\ UNCHANGED accFile
    ELSE /\ accFile' = Some(ps)
         /\ epc' = "country"
         /\ UNCHANGED <<enrichSkill, loopPage>>

\* line 314; a raise leaves through lines 351-353 to the save of line 356
EnrichStep(raise) ==
    /\ epc = "enrich_step"
    /\ Invoke(raise)
    /\ IF raise
       THEN /\ accFile' = Some(acc_players)
            /\ epc' = "country"
            /\ UNCHANGED <<enrichSkill, loopPage>>
       ELSE IF loopPage = 1
       THEN /\ epc' = "enrich_fetch"
            /\ UNCHANGED <<enrichSkill, loopPage, accFile>>
       ELSE EnrichNext(acc_players)
    /\ UNCHANGED <<eresult, esteam, acc_players, ss_players, target_country>>
    /\ UNCHANGED <<svcVars, ssFile, blFile, idxFile, fetchVars, requestAfterSignal, snapVars, writeVars, moreVars>>

\* lines 316-345 for page 1
EnrichFetch(out) ==
    /\ epc = "enrich_fetch"
    /\ CountRequest
    /\ CASE out = "error" ->
              /\ EnrichNext(acc_players)
              /\ UNCHANGED acc_players
         [] out = "ok" /\ RemainingIds(acc_players, enrichSkill) = {} ->
              /\ acc_players' = Enriched(acc_players, enrichSkill)
              /\ EnrichNext(acc_players')
         [] out = "ok" /\ RemainingIds(acc_players, enrichSkill) # {} ->
              /\ acc_players' = Enriched(acc_players, enrichSkill)
              /\ loopPage' = 2
              /\ epc' = "enrich_step"
              /\ UNCHANGED <<enrichSkill, accFile>>
    /\ UNCHANGED <<eresult, esteam, ss_players, target_country>>
    /\ UNCHANGED <<cbVars, svcVars, ssFile, blFile, idxFile, fetchVars, snapVars, writeVars, moreVars>>

\* lines 357-358
AccFailed(raise) ==
    /\ epc = "acc_failed"
    /\ Invoke(raise)
    /\ IF raise THEN EnsureEnd("raised")
                ELSE epc' = "country" /\ UNCHANGED eresult
    /\ UNCHANGED <<esteam, acc_players, enrichSkill, loopPage, ss_players, target_country>>
    /\ UNCHANGED <<svcVars, diskVars, fetchVars, requestAfterSignal, snapVars, writeVars, moreVars>>

\* lines 361-397
ResolveCountry(c) ==
    /\ epc = "country"
    /\ c \in CountryOptions
    /\ target_country' = c
    /\ epc' = "ss_step"
    /\ loopPage' = 0
    /\ ss_players' = <<>>
    /\ UNCHANGED <<eresult, esteam, acc_players, enrichSkill>>
    /\ UNCHANGED <<cbVars, svcVars, diskVars, fetchVars, requestAfterSignal, snapVars, writeVars, moreVars>>

\* line 402 (loopPage = 0) and line 422 with the loop's end and line 424
SsStep(raise) ==
    /\ epc = "ss_step"
    /\ Invoke(raise)
    /\ IF raise
       THEN /\ epc' = "ss_failed"
            /\ UNCHANGED <<loopPage, ssFile>>
       ELSE IF loopPage = MaxPagesArg
       THEN /\ ssFile' = Some(ss_players)
            /\ epc' = "bl"
            /\ UNCHANGED loopPage
       ELSE /\ loopPage' = loopPage + 1
            /\ epc' = "ss_fetch"
            /\ UNCHANGED ssFile
    /\ UNCHANGED <<eresult, esteam, acc_players, enrichSkill, ss_players, target_country>>
    /\ UNCHANGED <<svcVars, accFile, blFile, idxFile, fetchVars, requestAfterSignal, snapVars, writeVars, moreVars>>

\* lines 406-418 and 424; fetch_players raises on every failure (scoresaber.py:43)
SsFetch(out) ==
    /\ epc = "ss_fetch"
    /\ CountRequest
    /\ LET items == PageItems(OfCountry(ssSvc, target_country), loopPage)
           kept == ss_players \o SsKeptOfPage(items, target_country)
       IN  CASE out \in {"404", "error"} ->
                  /\ epc' = "ss_failed"
                  /\ UNCHANGED <<ss_players, ssFile>>
             [] out = "ok" /\ items = <<>> ->
                  /\ ssFile' = Some(ss_players)
                  /\ epc' = "bl"
                  /\ UNCHANGED ss_players
             [] out = "ok" /\ items # <<>> ->
                  /\ ss_players' = kept
                  /\ IF items[Len(items)].pp < SCORESABER_MIN_PP_GLOBAL
                     THEN /\ ssFile' = Some(kept)
                          /\ epc' = "bl"
                     ELSE /\ epc' = "ss_step"
                          /\ UNCHANGED ssFile
    /\ UNCHANGED <<eresult, esteam, acc_players, enrichSkill, loopPage, target_country>>
    /\ UNCHANGED <<cbVars, svcVars, accFile, blFile, idxFile, fetchVars, snapVars, writeVars, moreVars>>

\* lines 425-426
SsFailed(raise) ==
    /\ epc = "ss_failed"
    /\ Invoke(raise)
    /\ IF raise THEN EnsureEnd("raised")
                ELSE epc' = "bl" /\ UNCHANGED eresult
    /\ UNCHANGED <<esteam, acc_players, enrichSkill, loopPage, ss_players, target_country>>
    /\ UNCHANGED <<svcVars, diskVars, fetchVars, requestAfterSignal, snapVars, writeVars, moreVars>>

\* lines 430-437: the call of fetch_players_ranking
BlStart ==
    /\ epc = "bl"
    /\ FetchStart(BEATLEADER_MIN_PP_GLOBAL, MaxPagesArg)
    /\ epc' = "bl_wait"
    /\ UNCHANGED <<eresult, esteam, acc_players, enrichSkill, loopPage, ss_players,
                   target_country>>
    /\ UNCHANGED <<cbVars, svcVars, diskVars, requestAfterSignal, snapVars, writeVars, moreVars>>

\* the frame of a finished fetch_players_ranking call is gone
FetchForget ==
    /\ min_pp' = 0
    /\ max_pages' = 1
    /\ page' = 1
    /\ retries' = 0
    /\ pageReqs' = 0
    /\ players' = <<>>
    /\ fpc' = "idle"
    /\ fresult' = "none"
    /\ allOk' = TRUE
    /\ capHit' = FALSE

\* lines 439-447: its return or its exception
BlEnd ==
    /\ epc = "bl_wait"
    /\ fpc = "done"
    /\ IF fresult = "raised"
       THEN /\ epc' = "bl_failed"
            /\ UNCHANGED blFile
       ELSE /\ blFile' = Some(OfCountry(players, target_country))
            /\ epc' = "rebuild_step"
    /\ FetchForget
    /\ UNCHANGED <<eresult, esteam, acc_players, enrichSkill, loopPage, ss_players,
                   target_country>>
    /\ UNCHANGED <<cbVars, svcVars, accFile, ssFile, idxFile, requestAfterSignal, snapVars, writeVars, moreVars>>

\* line 448
BlFailed(raise) ==
    /\ epc = "bl_failed"
    /\ Invoke(raise)
    /\ IF raise THEN EnsureEnd("raised")
                ELSE epc' = "rebuild_step" /\ UNCHANGED eresult
    /\ UNCHANGED <<esteam, acc_players, enrichSkill, loopPage, ss_players, target_country>>
    /\ UNCHANGED <<svcVars, diskVars, fetchVars, requestAfterSignal, snapVars, writeVars, moreVars>>

\* lines 452-453
RebuildStep(raise) ==
    /\ epc = "rebuild_step"
    /\ Invoke(raise)
    /\ IF raise
       THEN /\ epc' = "rebuild_failed"
            /\ UNCHANGED idxFile
       ELSE /\ idxFile' = RebuiltIndexFile(CachedList(ssFile), CachedList(blFile), idxFile)
            /\ epc' = "ready_step"
    /\ UNCHANGED <<eresult, esteam, acc_players, enrichSkill, loopPage, ss_players,
                   target_country>>
    /\ UNCHANGED <<svcVars, rankFiles, fetchVars, requestAfterSignal, snapVars, writeVars, moreVars>>

\* line 454
ReadyStep(raise) ==
    /\ epc = "ready_step"
    /\ Invoke(raise)
    /\ IF raise THEN epc' = "rebuild_failed" /\ UNCHANGED eresult
                ELSE EnsureEnd("returned")
    /\ UNCHANGED <<esteam, acc_players, enrichSkill, loopPage, ss_players, target_country>>
    /\ UNCHANGED <<svcVars, diskVars, fetchVars, requestAfterSignal, snapVars, writeVars, moreVars>>

\* lines 455-456
RebuildFailed(raise) ==
    /\ epc = "rebuild_failed"
    /\ Invoke(raise)
    /\ IF raise THEN EnsureEnd("raised") ELSE EnsureEnd("returned")
    /\ UNCHANGED <<esteam, acc_players, enrichSkill, loopPage, ss_players, target_country>>
    /\ UNCHANGED <<svcVars, diskVars, fetchVars, requestAfterSignal, snapVars, writeVars, moreVars>>

EnsureCallbackStep ==
    \E raise \in BOOLEAN :
        \/ AccStep(raise)
        \/ EnrichStep(raise)
        \/ AccFailed(raise)
        \/ SsStep(raise)
        \/ SsFailed(raise)
        \/ BlFailed(raise)
        \/ RebuildStep(raise)
        \/ ReadyStep(raise)
        \/ RebuildFailed(raise)

EnsureServerStep ==
    \/ \E out \in {"ok", "error"} : AccFetch(out)
    \/ \E out \in {"ok", "error"} : EnrichFetch(out)
    \/ \E out \in {"ok", "404", "error"} : SsFetch(out)

EnsureLocalStep ==
    \/ \E prof \in BOOLEAN : EnsureBegin(prof)
    \/ \E c \in {"", "JP", "US"} : ResolveCountry(c)
    \/ BlStart
    \/ BlEnd

\* the cache directory before the call: nothing yet, or the files of an earlier run
OldIndex == [id \in {3} |-> IndexEntry(Some(SSRecord(3000)), Some(BLRecord(3000)))]

InitRank ==
    /\ InitCallback
    /\ svc \in {s \in BLServices : Len(s) >= MaxPP - 1}
    /\ ssSvc \in {s \in SSServices : Len(s) = MaxPP}
    /\ accSvc \in {s \in AccServices : Len(s) \in {0, MaxPP}}
    /\ \/ accFile = None /\ ssFile = None /\ blFile = None
       \/ /\ accFile = Some(<<AccRecord(3)>>)
          /\ ssFile = Some(<<SSRecord(4000)>>)
          /\ blFile = Some(<<BLRecord(5000)>>)
    /\ idxFile \in {None, Some(OldIndex)}
    /\ IdleFetch
    /\ IdleSnap
    /\ IdleWrite
    /\ IdleMore
    /\ requestAfterSignal = FALSE
    /\ epc = "start"
    /\ eresult = "none"
    /\ esteam \in {0, 4}
    /\ acc_players = <<>>
    /\ enrichSkill = 1
    /\ loopPage = 1
    /\ ss_players = <<>>
    /\ target_country = ""

NextRank ==
    \/ EnsureLocalStep
    \/ EnsureCallbackStep
    \/ EnsureServerStep
    \/ FetchCallbackStep
    \/ FetchServerStep

SpecRank == InitRank /\ [][NextRank]_vars

(***************************************************************************)
(* rebuild_player_index_from_global called on its own (app.py:759-765)      *)
(***************************************************************************)
RebuildCall ==
    /\ epc = "rebuild"
    /\ idxFile' = RebuiltIndexFile(CachedList(ssFile), CachedList(blFile), idxFile)
    /\ EnsureEnd("returned")
    /\ UNCHANGED <<esteam, acc_players, enrichSkill, loopPage, ss_players, target_country>>
    /\ UNCHANGED <<cbVars, svcVars, rankFiles, fetchVars, requestAfterSignal, snapVars, writeVars, moreVars>>

\* an index in which the player 3 has a BeatLeader record only
BlOnlyIndex == [id \in {3} |-> IndexEntry(None, Some(BLRecord(3000)))]

InitIndex ==
    /\ InitCallback
    /\ svc = <<>>
    /\ ssSvc = <<>>
    /\ accSvc = <<>>
    /\ accFile = None
    /\ ssFile \in {None} \cup {Some(s) : s \in SSServices}
    /\ blFile \in {None} \cup {Some(s) : s \in BLServices}
    /\ idxFile \in {None, Some(OldIndex), Some(BlOnlyIndex)}
    /\ IdleFetch
    /\ IdleSnap
    /\ IdleWrite
    /\ IdleMore
    /\ requestAfterSignal = FALSE
    /\ epc = "rebuild"
    /\ eresult = "none"
    /\ esteam = 0
    /\ acc_players = <<>>
    /\ enrichSkill = 1
    /\ loopPage = 1
    /\ ss_players = <<>>
    /\ target_country = ""

NextIndex == RebuildCall

SpecIndex == InitIndex /\ [][NextIndex]_vars

(***************************************************************************)
(* create_snapshot_for_steam_id (collector.py:1023-1562)                    *)
(***************************************************************************)
\* the clock's seconds run from 1 to MaxSecond
MaxSecond == 2

\* ranking_view.py:56-89: rows without a record are skipped
LoadPlayerIndex(f) ==
    IF ~Exists(f) THEN [id \in {} |-> IndexEntry(None, None)]
    ELSE [id \in {i \in DOMAIN f[1] :
                    Exists(f[1][i].scoresaber) \/ Exists(f[1][i].beatleader)} |-> f[1][id]]

\* collector.py:66-85: one row per entry of the index
SavedPlayerIndex(index) == Some(index)

WithEntryMutant(index, id, entry) == [i \in {id} |-> entry]

\* lines 1177-1182: player_index[steam_id] = entry
WithEntry(index, id, entry) ==
    [i \in DOMAIN index \cup {id} |-> IF i = id THEN entry ELSE index[i]]

\* snapshot.py:83-142 and collector.py:1508-1549: what the snapshot records
SnapshotOf(id, t, s, b, sst, bst) ==
    [steam_id |-> id, taken_at |-> t, scoresaber |-> s, beatleader |-> b,
     ss_stats |-> sst, bl_stats |-> bst]

\* line 1555: f"{steam_id}_{now:%Y%m%d-%H%M%S}.json"
SnapshotPath(id, t) == <<id, t>>

\* snapshot.py:163: path.write_text(...)
WriteFile(files, path, content) ==
    [p \in DOMAIN files \cup {path} |-> IF p = path THEN content ELSE files[p]]

\* line 1061
NeedRankingFetch == ~(Exists(ssFile) /\ Exists(blFile) /\ Exists(accFile))

SnapGoto(next) ==
    /\ spc' = next
    /\ UNCHANGED sresult

SnapEnd(res) ==
    /\ spc' = "done"
    /\ sresult' = res

\* the _step calls whose exception leaves create_snapshot_for_steam_id: those
\* outside every try (lines 1131, 1155, 1230, 1293, 1323, 1551, 1561), those
\* in a try whose handler calls _rethrow_if_cancelled (lines 1078, 1107, 1209,
\* 1274) and the progress(1, 1) of the ranked-map handlers (scoresaber.py:221,
\* collector.py:601); with the position that follows each
AfterPropagatingStep ==
    [ss_maps_step |-> "ss_maps", ss_maps_handler |-> "bl_maps_step",
     bl_maps_step |-> "bl_maps", bl_maps_handler |-> "index_step",
     index_step |-> "index", lookup_step |-> "lookup",
     ss_scores_step |-> "ss_scores", ss_stats_step |-> "ss_stats",
     bl_scores_step |-> "bl_scores", bl_stats_step |-> "bl_stats",
     acc_cache_step |-> "acc_cache", save_step |-> "save", done_step |-> "done"]

\* the _step calls inside `try: ... except Exception:` without a rethrow
\* (lines 1386, 1397, 1408, 1420, 1489, 1497): the stage they announce, and
\* the position after that stage
AfterSwallowingStep ==
    [acc_skill_step |-> <<"acc_skill", "acc_skill_next">>,
     acc_rank_step |-> <<"acc_rank", "ss_star_step">>,
     ss_star_step |-> <<"ss_stars", "bl_star_step">>,
     bl_star_step |-> <<"bl_stars", "build">>]

\* lines 1383-1420: the next of the three skill lookups, or the rank stage
AfterAccSkill(k) == IF k < 3 THEN "acc_skill_step" ELSE "acc_rank_step"

\* lines 1206, 1256: the stages of a player without a ScoreSaber record are skipped
AfterResolve(s) == IF Exists(s) THEN "ss_scores_step" ELSE "bl_resolve"

snapLocals == <<steam, ss, bl, ss_stats, bl_stats, accSkill, now, snapFiles>>

\* lines 1048-1069
SnapBegin ==
    /\ spc = "start"
    /\ IF NeedRankingFetch
       THEN /\ spc' = "ensure"
            /\ epc' = "start"
            /\ esteam' = steam
       ELSE /\ spc' = "ss_maps_step"
            /\ UNCHANGED <<epc, esteam>>
    /\ UNCHANGED <<sresult, snapLocals>>
    /\ UNCHANGED <<eresult, acc_players, enrichSkill, loopPage, ss_players, target_country>>
    /\ UNCHANGED <<cbVars, svcVars, diskVars, fetchVars, requestAfterSignal, writeVars, moreVars>>

\* lines 1069-1073: the return of ensure_global_rank_caches, or its exception
SnapEnsureEnd ==
    /\ spc = "ensure"
    /\ epc = "done"
    /\ IF eresult = "raised" THEN SnapEnd("cancelled") ELSE SnapGoto("ss_maps_step")
    /\ epc' = "idle"
    /\ eresult' = "none"
    /\ esteam' = 0
    /\ acc_players' = <<>>
    /\ enrichSkill' = 1
    /\ loopPage' = 1
    /\ ss_players' = <<>>
    /\ target_country' = ""
    /\ UNCHANGED snapLocals
    /\ UNCHANGED <<cbVars, svcVars, diskVars, fetchVars, requestAfterSignal, writeVars, moreVars>>

SnapPropagatingStep(raise) ==
    /\ spc \in DOMAIN AfterPropagatingStep
    /\ Invoke(raise)
    /\ IF raise THEN SnapEnd("cancelled")
       ELSE IF AfterPropagatingStep[spc] = "done" THEN SnapEnd("returned")
       ELSE SnapGoto(AfterPropagatingStep[spc])
    /\ UNCHANGED snapLocals
    /\ UNCHANGED <<svcVars, diskVars, fetchVars, requestAfterSignal, ensureVars, writeVars, moreVars>>

SnapSwallowingStep(raise) ==
    /\ spc \in DOMAIN AfterSwallowingStep
    /\ Invoke(raise)
    /\ LET next == AfterSwallowingStep[spc][IF raise THEN 2 ELSE 1]
       IN  IF next = "acc_skill_next"
           THEN /\ SnapGoto(AfterAccSkill(accSkill))
                /\ accSkill' = IF accSkill < 3 THEN accSkill + 1 ELSE accSkill
           ELSE /\ SnapGoto(next)
                /\ UNCHANGED accSkill
    /\ UNCHANGED <<steam, ss, bl, ss_stats, bl_stats, now, snapFiles>>
    /\ UNCHANGED <<svcVars, diskVars, fetchVars, requestAfterSignal, ensureVars, writeVars, moreVars>>

\* lines 1099-1104 with scoresaber.py:108-221: the catalogue request, then the
\* progress call inside the function's own try
SnapSsMaps(raise, out) ==
    /\ spc = "ss_maps"
    /\ CountRequest
    /\ IF out = "fail"
       THEN /\ ~raise
            /\ SnapGoto("ss_maps_handler")
            /\ UNCHANGED cbVars
       ELSE /\ Invoke(raise)
            /\ SnapGoto(IF raise THEN "ss_maps_handler" ELSE "bl_maps_step")
    /\ UNCHANGED <<steam, ss, bl, ss_stats, bl_stats, accSkill, now, snapFiles>>
    /\ UNCHANGED <<svcVars, diskVars, fetchVars, ensureVars, writeVars, moreVars>>

\* lines 1124-1127 with collector.py:462-669: with a catalogue cache the
\* progress call is inside the function's try (517-601), without one it is
\* not (621-667)
SnapBlMaps(raise, cached, out) ==
    /\ spc = "bl_maps"
    /\ CountRequest
    /\ IF out = "fail"
       THEN /\ ~raise
            /\ SnapGoto("bl_maps_handler")
            /\ UNCHANGED cbVars
       ELSE /\ Invoke(raise)
            /\ IF raise /\ ~cached THEN SnapEnd("cancelled")
               ELSE SnapGoto(IF raise THEN "bl_maps_handler" ELSE "index_step")
    /\ UNCHANGED <<steam, ss, bl, ss_stats, bl_stats, accSkill, now, snapFiles>>
    /\ UNCHANGED <<svcVars, diskVars, fetchVars, ensureVars, writeVars, moreVars>>

\* lines 1132-1148 and 1191-1194
SnapLoadIndex ==
    /\ spc = "index"
    /\ LET first == LoadPlayerIndex(idxFile)
           rebuilt == IF DOMAIN first = {}
                      THEN RebuiltIndexFile(CachedList(ssFile), CachedList(blFile), idxFile)
                      ELSE idxFile
           player_index == LoadPlayerIndex(rebuilt)
       IN  /\ idxFile' = rebuilt
           /\ IF steam \in DOMAIN player_index
              THEN /\ ss' = player_index[steam].scoresaber
                   /\ bl' = player_index[steam].beatleader
                   /\ SnapGoto(AfterResolve(ss'))
              ELSE /\ SnapGoto("lookup_step")
                   /\ UNCHANGED <<ss, bl>>
    /\ UNCHANGED <<steam, ss_stats, bl_stats, accSkill, now, snapFiles>>
    /\ UNCHANGED <<cbVars, svcVars, rankFiles, fetchVars, requestAfterSignal, ensureVars, writeVars, moreVars>>

\* lines 1156-1188: both direct fetches, the RuntimeError, the index save
SnapLookup(ssOut, blOut) ==
    /\ spc = "lookup"
    /\ CountRequest
    /\ ss' = IF ssOut = "found" THEN Some(SSRecord(1000 * steam)) ELSE None
    /\ bl' = IF blOut = "found" THEN Some(BLRecord(1000 * steam)) ELSE None
    /\ IF ss' = None /\ bl' = None
       THEN /\ SnapEnd("failed")
            /\ UNCHANGED idxFile
       ELSE /\ idxFile' = SavedPlayerIndex(
                              WithEntry(LoadPlayerIndex(idxFile), steam, IndexEntry(ss', bl')))
            /\ SnapGoto(AfterResolve(ss'))
    /\ UNCHANGED <<steam, ss_stats, bl_stats, accSkill, now, snapFiles>>
    /\ UNCHANGED <<cbVars, svcVars, rankFiles, fetchVars, ensureVars, writeVars, moreVars>>

\* lines 1224-1227 and 1287-1290: a score refresh; its progress calls are
\* outside any try of the callee (scoresaber.py:443, beatleader.py:420)
SnapScores(at, next, raise, out) ==
    /\ spc = at
    /\ CountRequest
    /\ IF out = "fail"
       THEN /\ ~raise
            /\ SnapGoto(next)
            /\ UNCHANGED cbVars
       ELSE /\ Invoke(raise)
            /\ IF raise THEN SnapEnd("cancelled") ELSE SnapGoto(next)
    /\ UNCHANGED <<steam, ss, bl, ss_stats, bl_stats, accSkill, now, snapFiles>>
    /\ UNCHANGED <<svcVars, diskVars, fetchVars, ensureVars, writeVars, moreVars>>

SnapSsScores(raise, out) == SnapScores("ss_scores", "ss_stats_step", raise, out)

SnapBlScores(raise, out) == SnapScores("bl_scores", "bl_stats_step", raise, out)

\* a stats request (collector/scoresaber.py:512-535, collector.py:824-851):
\* {} on a failed request, an exception on a body that is no JSON object
StatsFatal(out) == out = "badshape"

\* line 1231
SnapSsStats(out) ==
    /\ spc = "ss_stats"
    /\ CountRequest
    /\ ss_stats' = (out = "ok")
    /\ IF StatsFatal(out) THEN SnapEnd("failed") ELSE SnapGoto("bl_resolve")
    /\ UNCHANGED <<steam, ss, bl, bl_stats, accSkill, now, snapFiles>>
    /\ UNCHANGED <<cbVars, svcVars, diskVars, fetchVars, ensureVars, writeVars, moreVars>>

\* lines 1255-1271: fetch_bl_player for a player without a BeatLeader record
\* (beatleader.py:26-70: None on a failed request, an exception on a malformed body)
SnapBlResolve(out) ==
    /\ spc = "bl_resolve"
    /\ IF bl = None /\ Exists(ss)
       THEN /\ CountRequest
            /\ bl' = IF out = "found" THEN Some(BLRecord(1000 * ss[1].id)) ELSE None
            /\ IF out = "badshape" THEN SnapEnd("failed")
               ELSE SnapGoto(IF out = "found" THEN "bl_scores_step" ELSE "acc_cache_step")
       ELSE /\ out = "found"
            /\ SnapGoto(IF Exists(bl) THEN "bl_scores_step" ELSE "acc_cache_step")
            /\ UNCHANGED <<bl, requestAfterSignal>>
    /\ UNCHANGED <<steam, ss, ss_stats, bl_stats, accSkill, now, snapFiles>>
    /\ UNCHANGED <<cbVars, svcVars, diskVars, fetchVars, ensureVars, writeVars, moreVars>>

\* line 1294
SnapBlStats(out) ==
    /\ spc = "bl_stats"
    /\ CountRequest
    /\ bl_stats' = (out = "ok")
    /\ IF StatsFatal(out) THEN SnapEnd("failed") ELSE SnapGoto("acc_cache_step")
    /\ UNCHANGED <<steam, ss, bl, ss_stats, accSkill, now, snapFiles>>
    /\ UNCHANGED <<cbVars, svcVars, diskVars, fetchVars, ensureVars, writeVars, moreVars>>

\* line 1324 and 1383: the overall entry from the cache, else from the service
\* (collector/accsaber.py:68-93)
SnapAccCache ==
    /\ spc = "acc_cache"
    /\ IF Exists(ss) /\ ~(\E p \in SeqRange(CachedList(accFile)) : p.scoresaber_id = ss[1].id)
       THEN CountRequest
       ELSE UNCHANGED requestAfterSignal
    /\ SnapGoto(IF Exists(ss) THEN "acc_skill_step" ELSE "ss_star_step")
    /\ accSkill' = 1
    /\ UNCHANGED <<steam, ss, bl, ss_stats, bl_stats, now, snapFiles>>
    /\ UNCHANGED <<cbVars, svcVars, diskVars, fetchVars, ensureVars, writeVars, moreVars>>

\* lines 1387, 1398, 1409: _find_accsaber_skill_for_scoresaber_id
SnapAccSkill(out) ==
    /\ spc = "acc_skill"
    /\ CountRequest
    /\ SnapGoto(AfterAccSkill(accSkill))
    /\ accSkill' = IF accSkill < 3 THEN accSkill + 1 ELSE accSkill
    /\ UNCHANGED <<steam, ss, bl, ss_stats, bl_stats, now, snapFiles>>
    /\ UNCHANGED <<cbVars, svcVars, diskVars, fetchVars, ensureVars, writeVars, moreVars>>

\* lines 1421-1480: the country ranks from the cached standings
SnapAccRank ==
    /\ spc = "acc_rank"
    /\ SnapGoto("ss_star_step")
    /\ UNCHANGED snapLocals
    /\ UNCHANGED <<cbVars, svcVars, diskVars, fetchVars, requestAfterSignal, ensureVars, writeVars, moreVars>>

\* lines 1490-1493 and 1498-1502: a star-stat stage
SnapStars(at, next, out) ==
    /\ spc = at
    /\ CountRequest
    /\ SnapGoto(next)
    /\ UNCHANGED <<steam, ss, bl, ss_stats, bl_stats, accSkill, now, snapFiles>>
    /\ UNCHANGED <<cbVars, svcVars, diskVars, fetchVars, ensureVars, writeVars, moreVars>>

SnapSsStars(out) == SnapStars("ss_stars", "bl_star_step", out)

SnapBlStars(out) == SnapStars("bl_stars", "build", out)

\* line 1506: the clock is read, to the second
SnapBuild(t) ==
    /\ spc = "build"
    /\ t \in now..MaxSecond
    /\ now' = t
    /\ SnapGoto("save_step")
    /\ UNCHANGED <<steam, ss, bl, ss_stats, bl_stats, accSkill, snapFiles>>
    /\ UNCHANGED <<cbVars, svcVars, diskVars, fetchVars, requestAfterSignal, ensureVars, writeVars, moreVars>>

\* lines 1553-1558
SnapSave ==
    /\ spc = "save"
    /\ snapFiles' = WriteFile(snapFiles, SnapshotPath(steam, now),
                              SnapshotOf(steam, now, ss, bl, ss_stats, bl_stats))
    /\ SnapGoto("done_step")
    /\ UNCHANGED <<steam, ss, bl, ss_stats, bl_stats, accSkill, now>>
    /\ UNCHANGED <<cbVars, svcVars, diskVars, fetchVars, requestAfterSignal, ensureVars, writeVars, moreVars>>

SnapCallbackStep ==
    \E raise \in BOOLEAN :
        \/ SnapPropagatingStep(raise)
        \/ SnapSwallowingStep(raise)

SnapStageStep ==
    \/ \E raise \in BOOLEAN, out \in {"ok", "fail"} : SnapSsMaps(raise, out)
    \/ \E raise \in BOOLEAN, cached \in BOOLEAN, out \in {"ok", "fail"} :
           SnapBlMaps(raise, cached, out)
    \/ \E ssOut \in {"found", "none"}, blOut \in {"found", "none"} : SnapLookup(ssOut, blOut)
    \/ \E raise \in BOOLEAN, out \in {"ok", "fail"} : SnapSsScores(raise, out)
    \/ \E out \in {"ok", "fail", "badshape"} : SnapSsStats(out)
    \/ \E out \in {"found", "none", "badshape"} : SnapBlResolve(out)
    \/ \E raise \in BOOLEAN, out \in {"ok", "fail"} : SnapBlScores(raise, out)
    \/ \E out \in {"ok", "fail", "badshape"} : SnapBlStats(out)
    \/ \E out \in {"found", "none"} : SnapAccSkill(out)
    \/ \E out \in {"ok", "fail"} : SnapSsStars(out)
    \/ \E out \in {"ok", "fail"} : SnapBlStars(out)

SnapLocalStep ==
    \/ SnapBegin
    \/ SnapEnsureEnd
    \/ SnapLoadIndex
    \/ SnapAccCache
    \/ SnapAccRank
    \/ \E t \in 1..MaxSecond : SnapBuild(t)
    \/ SnapSave

\* a snapshot of the same player written earlier in the clock's current second
EarlierSnapshot(id) ==
    SnapshotOf(id, 1, Some(SSRecord(1000 * id)), None, TRUE, FALSE)

InitSnap ==
    /\ InitCallback
    /\ svc = MapSeq(DescendingOf(PPLevels), BLRecord)
    /\ ssSvc = MapSeq(DescendingOf(PPLevels), SSRecord)
    /\ accSvc = MapSeq(DescendingOf(PlayerIds), AccRecord)
    /\ steam \in {3, 4}
    \* a first run on an empty cache directory, or a run on the files of earlier runs
    /\ \/ /\ accFile = None /\ ssFile = None /\ blFile = None
          /\ idxFile = None
          /\ snapFiles = NoFiles
       \/ /\ accFile = Some(<<AccRecord(3)>>)
          /\ ssFile = Some(<<SSRecord(4000)>>)
          /\ blFile = Some(<<BLRecord(5000)>>)
          /\ idxFile \in {None, Some(OldIndex), Some(BlOnlyIndex)}
          /\ snapFiles \in {NoFiles,
                             [p \in {SnapshotPath(steam, 1)} |-> EarlierSnapshot(steam)]}
    /\ IdleFetch
    /\ IdleEnsure
    /\ IdleWrite
    /\ IdleMore
    /\ requestAfterSignal = FALSE
    /\ spc = "start"
    /\ sresult = "none"
    /\ ss = None
    /\ bl = None
    /\ ss_stats = FALSE
    /\ bl_stats = FALSE
    /\ accSkill = 1
    /\ now = 1

NextSnap ==
    \/ SnapLocalStep
    \/ SnapCallbackStep
    \/ SnapStageStep
    \/ EnsureLocalStep
    \/ EnsureCallbackStep
    \/ EnsureServerStep
    \/ FetchCallbackStep
    \/ FetchServerStep

SpecSnap == InitSnap /\ [][NextSnap]_vars

(***************************************************************************)
(* _save_list_cache (collector.py:88-96) writing scoresaber_ranking.json:   *)
(* path.write_text opens the file for writing, which empties it, and then   *)
(* writes the text.                                                         *)
(***************************************************************************)
\* lines 91-93: mkdir, asdict, json.dumps
SaveBegin(items) ==
    /\ wpc = "idle"
    /\ wpc' = "serialised"
    /\ wresult' = "none"
    /\ wprev' = ssFile
    /\ wnew' = items
    /\ UNCHANGED <<torn, diskVars>>
    /\ UNCHANGED <<cbVars, svcVars, fetchVars, requestAfterSignal, ensureVars, snapVars, moreVars>>

\* lines 95-96: the directory or the file cannot be opened; the exception is dropped
SaveFailEarly ==
    /\ wpc = "serialised"
    /\ wpc' = "idle"
    /\ wresult' = "failed"
    /\ UNCHANGED <<wprev, wnew, torn, diskVars>>
    /\ UNCHANGED <<cbVars, svcVars, fetchVars, requestAfterSignal, ensureVars, snapVars, moreVars>>

\* line 94: write_text opens the file with mode "w"
SaveOpen ==
    /\ wpc = "serialised"
    /\ wpc' = "open"
    /\ ssFile' = Some(<<>>)
    /\ torn' = TRUE
    /\ UNCHANGED <<wresult, wprev, wnew, accFile, blFile, idxFile>>
    /\ UNCHANGED <<cbVars, svcVars, fetchVars, requestAfterSignal, ensureVars, snapVars, moreVars>>

\* line 94: the text is written and the file closed
SaveWriteAll ==
    /\ wpc = "open"
    /\ wpc' = "idle"
    /\ wresult' = "saved"
    /\ ssFile' = Some(wnew)
    /\ torn' = FALSE
    /\ UNCHANGED <<wprev, wnew, accFile, blFile, idxFile>>
    /\ UNCHANGED <<cbVars, svcVars, fetchVars, requestAfterSignal, ensureVars, snapVars, moreVars>>

\* lines 94-96: the write fails part-way (disk full, process stopped); the
\* exception is dropped
SaveInterrupted ==
    /\ wpc = "open"
    /\ wpc' = "idle"
    /\ wresult' = "failed"
    /\ UNCHANGED <<wprev, wnew, torn, diskVars>>
    /\ UNCHANGED <<cbVars, svcVars, fetchVars, requestAfterSignal, ensureVars, snapVars, moreVars>>

InitDisk ==
    /\ InitCallback
    /\ svc = <<>>
    /\ ssSvc = <<>>
    /\ accSvc = <<>>
    /\ accFile = None
    /\ ssFile \in {None} \cup {Some(s) : s \in SSServices}
    /\ blFile = None
    /\ idxFile = None
    /\ IdleFetch
    /\ IdleEnsure
    /\ IdleSnap
    /\ IdleWrite
    /\ IdleMore
    /\ requestAfterSignal = FALSE

NextDisk ==
    \/ \E items \in SSServices : SaveBegin(items)
    \/ SaveFailEarly
    \/ SaveOpen
    \/ SaveWriteAll
    \/ SaveInterrupted

SpecDisk == InitDisk /\ [][NextDisk]_vars

(***************************************************************************)
(* The leaderboard clients parsing the entries of one page:                 *)
(* accsaber._fetch_leaderboard, scoresaber.fetch_players and                *)
(* beatleader.fetch_players_ranking.                                        *)
(***************************************************************************)
\* the longest page
MaxEntries == 3

Clients == {"accsaber", "scoresaber", "beatleader"}

\* an entry of a page: well-formed; an object without its id field
\* (playerId / id); an object whose numeric field (rank / pp) int() or
\* float() rejects; a value that is no object
EntryKinds == {"valid", "missing", "illtyped", "nonobject"}

Pages == UNION {[1..n -> EntryKinds] : n \in 0..MaxEntries}

\* what the loop body does with one entry
EntryOutcome(client, kind) ==
    IF client = "accsaber"
    THEN \* accsaber.py:81-91: isinstance check, `if not player_id`, int(rank) guarded
         IF kind = "valid" THEN "keep" ELSE "skip"
    ELSE \* scoresaber.py:49-64, beatleader.py:209-227: p.get(..., default) inside
         \* `try ... except (TypeError, ValueError)`; p.get on a non-object is
         \* an AttributeError
         CASE kind = "valid" -> "keep"
           [] kind = "missing" -> "keep"
           [] kind = "illtyped" -> "skip"
           [] kind = "nonobject" -> "raise"

PageRaises(client, pg) ==
    \E i \in 1..Len(pg) : EntryOutcome(client, pg[i]) = "raise"

RECURSIVE KeptPositions(_, _, _)
KeptPositions(client, pg, i) ==
    IF i > Len(pg) THEN <<>>
    ELSE (IF EntryOutcome(client, pg[i]) = "keep" THEN <<i>> ELSE <<>>)
         \o KeptPositions(client, pg, i + 1)

ParsePage ==
    /\ ppc = "parse"
    /\ ppc' = "done"
    /\ IF PageRaises(pclient, entries)
       THEN /\ presult' = "raised"
            /\ UNCHANGED parsed
       ELSE /\ presult' = "returned"
            /\ parsed' = KeptPositions(pclient, entries, 1)
    /\ UNCHANGED <<pclient, entries>>
    /\ UNCHANGED <<coreVars, catVars, scoreVars, lateVars>>

IdleCore ==
    /\ InitCallback
    /\ svc = <<>>
    /\ ssSvc = <<>>
    /\ accSvc = <<>>
    /\ IdleDisk
    /\ IdleFetch
    /\ IdleEnsure
    /\ IdleSnap
    /\ IdleWrite
    /\ requestAfterSignal = FALSE

InitParse ==
    /\ IdleCore
    /\ IdleLate
    /\ pclient \in Clients
    /\ entries \in Pages
    /\ ppc = "parse"
    /\ presult = "none"
    /\ parsed = <<>>
    /\ IdleCatalog
    /\ IdleScores

NextParse == ParsePage

SpecParse == InitParse /\ [][NextParse]_vars

(***************************************************************************)
(* The ranked-catalogue getters, called without a progress callback:        *)
(* _get_scoresaber_leaderboards_ranked (collector/scoresaber.py:72-228)     *)
(* and _get_beatleader_leaderboards_ranked (collector/beatleader.py:124-    *)
(* 289).  A chart is its id; the services list the newest chart first.      *)
(***************************************************************************)
\* the charts have the ids 1..MaxCharts
MaxCharts == 3
\* itemsPerPage of the ScoreSaber metadata, page_size of the BeatLeader getter
\* (100 in the program)
CatPageSize == 2

Catalogs == {DescendingOf(S) : S \in SUBSET (1..MaxCharts)}

\* a cache file written by an earlier call
ValidCatFile(charts, total) == [kind |-> "valid", charts |-> charts, total |-> total]

\* the cache file before the call: absent; as an earlier call saved it; no
\* JSON; JSON that is no object or has no list; a list one of whose elements
\* is not of the saved shape (ScoreSaber: a leaderboard that is no object,
\* BeatLeader: a Ranked page whose data is a non-empty list)
CatFiles ==
    {NoCatFile} \cup {ValidCatFile(c, Len(c)) : c \in Catalogs}
    \cup {[kind |-> k, charts |-> <<>>, total |-> 0] :
              k \in {"corrupt", "notobject", "badelement"}}

\* _load_cached_rank_maps / _load_cached_pages: the list, or None
LoaderReturnsList(f) == f.kind \in {"valid", "badelement"}

\* scoresaber.py:92-98 (lb.get on each element), beatleader.py:156-163
\* (data.get on each page's data): both outside every try
LoadRaises(f) == f.kind = "badelement"

CeilDiv(a, b) == (a + b - 1) \div b

CatPageItems(s, p) == SubSeq(s, (p - 1) * CatPageSize + 1, Min(p * CatPageSize, Len(s)))

\* add_leaderboards (scoresaber.py:230-235): the charts of a page not yet known
NewOf(items, known) == SelectSeq(items, LAMBDA c : c \notin known)

\* scoresaber.py:131, beatleader.py:191: the cache is taken to be current
CacheIsCurrentMutant(latest, cached) == latest < cached
CacheIsCurrent(latest, cached) == latest <= cached

CatEnd(res, list) ==
    /\ cpc' = "done"
    /\ cresult' = res
    /\ returned' = list

CatRequest(r) ==
    /\ creqs' = creqs + 1
    /\ cok' = (cok /\ r = "ok")

\* scoresaber.py:87-103, beatleader.py:138-173
CatLoad ==
    /\ cpc = "load"
    /\ IF LoadRaises(catFile)
       THEN /\ CatEnd("raised", <<>>)
            /\ UNCHANGED <<hadCache, leaderboards, cachedTotal>>
       ELSE /\ hadCache' = LoaderReturnsList(catFile)
            /\ leaderboards' = catFile.charts
            /\ cachedTotal' = catFile.total
            /\ cpc' = IF cservice = "beatleader" /\ ~LoaderReturnsList(catFile)
                      THEN "page" ELSE "meta"
            /\ UNCHANGED <<cresult, returned>>
    /\ UNCHANGED <<cservice, catalog, catFile, catFile0, creqs, cok, cwritten, appended,
                   cpage, latestTotal, totalPages>>
    /\ UNCHANGED <<coreVars, parseVars, scoreVars, lateVars>>

\* the request for page 1 and what follows it up to the next request:
\* scoresaber.py:108-150, beatleader.py:175-197 and the page-1 turn of the
\* loop at 200-230
CatMeta(r) ==
    /\ cpc = "meta"
    /\ CatRequest(r)
    /\ latestTotal' = IF r = "ok" THEN Len(catalog) ELSE latestTotal
    /\ CASE r = "404" ->
              \* the `if resp.status_code != 404` is skipped and the function
              \* runs to its end: ScoreSaber returns the list (line 228);
              \* BeatLeader saves the cached pages again (lines 280-284)
              /\ CatEnd("returned", leaderboards)
              /\ IF cservice = "beatleader" /\ hadCache
                 THEN cwritten' = TRUE
                 ELSE UNCHANGED cwritten
              /\ UNCHANGED <<catFile, leaderboards, appended, cpage, totalPages>>
         [] r = "error" ->
              /\ CatEnd("returned", leaderboards)
              /\ UNCHANGED <<catFile, cwritten, leaderboards, appended, cpage, totalPages>>
         [] r = "ok" /\ CacheIsCurrent(Len(catalog), cachedTotal) ->
              /\ CatEnd("returned", leaderboards)
              /\ UNCHANGED <<catFile, cwritten, leaderboards, appended, cpage, totalPages>>
         [] r = "ok" /\ ~CacheIsCurrent(Len(catalog), cachedTotal) ->
              LET first == CatPageItems(catalog, 1) IN
              IF cservice = "scoresaber"
              THEN LET app == NewOf(first, SeqRange(leaderboards))
                       new_total == cachedTotal + Len(app)
                       pages == CeilDiv(new_total, CatPageSize)
                   IN  /\ appended' = app
                       /\ totalPages' = pages
                       /\ cpage' = 2
                       /\ cpc' = IF new_total < Len(catalog) /\ 2 <= pages
                                 THEN "page" ELSE "save"
                       /\ UNCHANGED <<catFile, cwritten, leaderboards, cresult, returned>>
              ELSE /\ leaderboards' = first
                   /\ cpage' = 2
                   /\ cpc' = IF Len(first) < CatPageSize THEN "save" ELSE "page"
                   /\ UNCHANGED <<catFile, cwritten, appended, totalPages, cresult, returned>>
    /\ UNCHANGED <<cservice, catalog, catFile0, hadCache, cachedTotal>>
    /\ UNCHANGED <<coreVars, parseVars, scoreVars, lateVars>>

\* a later page: scoresaber.py:154-193 (pages 2..total_pages_new),
\* beatleader.py:200-230 (with a cache) and 251-278 (without)
CatFetchPage(r) ==
    /\ cpc = "page"
    /\ CatRequest(r)
    /\ LET items == CatPageItems(catalog, cpage) IN
       IF cservice = "scoresaber"
       THEN /\ IF r # "ok"
               THEN /\ cpc' = "save"
                    /\ UNCHANGED <<appended, cpage>>
               ELSE LET app == appended \o
                                  NewOf(items, SeqRange(leaderboards) \cup SeqRange(appended))
                    IN  /\ appended' = app
                        /\ IF \/ cachedTotal + Len(app) >= latestTotal
                              \/ items = <<>>
                              \/ cpage + 1 > totalPages
                           THEN cpc' = "save" /\ UNCHANGED cpage
                           ELSE cpage' = cpage + 1 /\ UNCHANGED cpc
            /\ UNCHANGED <<leaderboards, cresult, returned>>
       ELSE /\ UNCHANGED appended
            /\ CASE r = "404" ->
                      \* break; nothing is saved when no page was fetched
                      /\ IF cpage = 1
                         THEN CatEnd("returned", leaderboards)
                         ELSE cpc' = "save" /\ UNCHANGED <<cresult, returned>>
                      /\ UNCHANGED <<leaderboards, cpage>>
                 [] r = "error" ->
                      \* with a cache the handler at line 241 returns the
                      \* charts refetched so far; without one
                      \* raise_for_status (line 262) leaves the getter
                      /\ IF hadCache THEN CatEnd("returned", leaderboards)
                                     ELSE CatEnd("raised", <<>>)
                      /\ UNCHANGED <<leaderboards, cpage>>
                 [] r = "ok" ->
                      /\ leaderboards' = leaderboards \o items
                      /\ IF Len(items) < CatPageSize
                         THEN cpc' = "save" /\ UNCHANGED cpage
                         ELSE cpage' = cpage + 1 /\ UNCHANGED cpc
                      /\ UNCHANGED <<cresult, returned>>
    /\ UNCHANGED <<cservice, catalog, catFile, catFile0, cwritten, hadCache, cachedTotal,
                   latestTotal, totalPages>>
    /\ UNCHANGED <<coreVars, parseVars, scoreVars, lateVars>>

\* scoresaber.py:194-216 and beatleader.py:232-240, 280-289
CatSave ==
    /\ cpc = "save"
    /\ IF cservice = "scoresaber"
       THEN IF appended # <<>>
            THEN LET all == DescendingOf(SeqRange(appended) \cup SeqRange(leaderboards))
                 IN  /\ leaderboards' = all
                     /\ catFile' = ValidCatFile(all, Len(all))
                     /\ cwritten' = TRUE
                     /\ CatEnd("returned", all)
            ELSE /\ CatEnd("returned", leaderboards)
                 /\ UNCHANGED <<leaderboards, catFile, cwritten>>
       ELSE /\ catFile' = ValidCatFile(leaderboards, Len(catalog))
            /\ cwritten' = TRUE
            /\ CatEnd("returned", leaderboards)
            /\ UNCHANGED leaderboards
    /\ UNCHANGED <<cservice, catalog, catFile0, creqs, cok, hadCache, appended, cpage,
                   cachedTotal, latestTotal, totalPages>>
    /\ UNCHANGED <<coreVars, parseVars, scoreVars, lateVars>>

InitCatalog ==
    /\ IdleCore
    /\ IdleLate
    /\ IdleParse
    /\ IdleScores
    /\ cservice \in {"scoresaber", "beatleader"}
    /\ catalog \in Catalogs
    /\ catFile \in CatFiles
    /\ catFile0 = catFile
    /\ cpc = "load"
    /\ cresult = "none"
    /\ returned = <<>>
    /\ creqs = 0
    /\ cok = TRUE
    /\ cwritten = FALSE
    /\ hadCache = FALSE
    /\ leaderboards = <<>>
    /\ appended = <<>>
    /\ cpage = 1
    /\ cachedTotal = 0
    /\ latestTotal = 0
    /\ totalPages = 0

NextCatalog ==
    \/ CatLoad
    \/ \E r \in {"ok", "404", "error"} : CatMeta(r)
    \/ \E r \in {"ok", "404", "error"} : CatFetchPage(r)
    \/ CatSave

SpecCatalog == InitCatalog /\ [][NextCatalog]_vars

(***************************************************************************)
(* _get_scoresaber_player_scores (collector/scoresaber.py:237-457) called   *)
(* over a cache that an earlier call saved with sort=recent.  A score is    *)
(* its timeSet; the service lists the newest score first.                   *)
(***************************************************************************)
\* the scores were set at the times 1..MaxTime
MaxTime == 4
\* the limit parameter (100 in the program)
ScorePageSize == 2
\* max_new_pages (scoresaber.py:321: 50 in the program)
MaxNewPages == 2

Histories == {DescendingOf(S) : S \in SUBSET (1..MaxTime)}

ScorePageItems(h, p) ==
    SubSeq(h, (p - 1) * ScorePageSize + 1, Min(p * ScorePageSize, Len(h)))

\* lines 406-451: the pages an uncached call saves, the last one short or empty
RECURSIVE PagesFrom(_, _)
PagesFrom(h, p) ==
    LET items == ScorePageItems(h, p) IN
    <<[page |-> p, items |-> items]>>
    \o (IF Len(items) < ScorePageSize THEN <<>> ELSE PagesFrom(h, p + 1))

\* the file that a call at the time f saved
SavedScoreFile(f, pages) == [fetched_at |-> f, pages |-> pages]

RECURSIVE ItemsOf(_)
ItemsOf(pages) ==
    IF pages = <<>> THEN <<>> ELSE Head(pages).items \o ItemsOf(Tail(pages))

\* lines 319 and 350: tcmp > fetched_at
IsNewerMutant(t, f) == t >= f
IsNewer(t, f) == t > f

\* lines 355-357
Merged(fresh, cached) ==
    LET last_new_page == fresh[Len(fresh)].page
    IN  fresh \o SelectSeq(cached, LAMBDA p : p.page > last_new_page)

ScoreRequest(r, items) ==
    /\ sreqs' = sreqs + 1
    /\ staleSeen' = (staleSeen \/ (r = "ok" /\ (items = <<>> \/ items[1] <= scFile.fetched_at)))

ScoreEnd(list) ==
    /\ scpc' = "done"
    /\ scores' = list

\* lines 299-319: the request for page 1 that checks for newer scores
ScoreCheck(r) ==
    /\ scpc = "check"
    /\ LET items == ScorePageItems(history, 1) IN
       /\ ScoreRequest(r, items)
       /\ checkOk' = (r = "ok")
       /\ IF r = "ok" /\ items # <<>> /\ IsNewer(items[1], scFile.fetched_at)
          THEN /\ scpc' = "page"
               /\ UNCHANGED scores
          ELSE ScoreEnd(ItemsOf(scFile.pages))
    /\ UNCHANGED <<history, scFile, scFile0, new_pages, page_num, scWritten>>
    /\ UNCHANGED <<coreVars, parseVars, catVars, lateVars>>

\* lines 322-352: one turn of the refresh loop
ScorePage(r) ==
    /\ scpc = "page"
    /\ LET items == ScorePageItems(history, page_num) IN
       /\ ScoreRequest(r, items)
       /\ IF r = "ok" /\ items # <<>> /\ IsNewer(items[1], scFile.fetched_at)
          THEN /\ new_pages' = Append(new_pages, [page |-> page_num, items |-> items])
               /\ IF page_num = MaxNewPages
                  THEN scpc' = "merge" /\ UNCHANGED page_num
                  ELSE page_num' = page_num + 1 /\ UNCHANGED scpc
          ELSE /\ scpc' = "merge"
               /\ UNCHANGED <<new_pages, page_num>>
    /\ UNCHANGED <<history, scFile, scFile0, checkOk, scWritten, scores>>
    /\ UNCHANGED <<coreVars, parseVars, catVars, lateVars>>

\* lines 354-370 and 376-380; the save stamps the file with the present time
ScoreMerge ==
    /\ scpc = "merge"
    /\ IF new_pages # <<>>
       THEN LET pages_merged == Merged(new_pages, scFile.pages)
            IN  /\ scFile' = SavedScoreFile(MaxTime, pages_merged)
                /\ scWritten' = TRUE
                /\ ScoreEnd(ItemsOf(pages_merged))
       ELSE /\ ScoreEnd(ItemsOf(scFile.pages))
            /\ UNCHANGED <<scFile, scWritten>>
    /\ UNCHANGED <<history, scFile0, sreqs, checkOk, staleSeen, new_pages, page_num>>
    /\ UNCHANGED <<coreVars, parseVars, catVars, lateVars>>

\* the cache holds the scores set up to its fetched_at; the service has them
\* and the scores set since
InitScores ==
    /\ IdleCore
    /\ IdleLate
    /\ IdleParse
    /\ IdleCatalog
    /\ history \in Histories
    /\ \E f \in 0..MaxTime :
           scFile = SavedScoreFile(f,
                        PagesFrom(SelectSeq(history, LAMBDA t : t <= f), 1))
    /\ scFile0 = scFile
    /\ scpc = "check"
    /\ sreqs = 0
    /\ checkOk = FALSE
    /\ staleSeen = FALSE
    /\ new_pages = <<>>
    /\ page_num = 1
    /\ scWritten = FALSE
    /\ scores = <<>>

NextScores ==
    \/ \E r \in {"ok", "404", "error"} : ScoreCheck(r)
    \/ \E r \in {"ok", "404", "error"} : ScorePage(r)
    \/ ScoreMerge

SpecScores == InitScores /\ [][NextScores]_vars

(***************************************************************************)
(* The AccSaber country ranks of create_snapshot_for_steam_id              *)
(* (collector/collector.py:1420-1480): the cached AccSaber ranking is      *)
(* narrowed to the target's country through the player index, and          *)
(* _rank_for places the target in it, once per category.                   *)
(***************************************************************************)
\* the cached ranking holds at most MaxAccPlayers players
MaxAccPlayers == 3

\* the AP columns of the cache are texts; "" is a category without score
ApTexts == {"", "50", "100"}

\* the ScoreSaber ids of the cached players; "" is a player without one
AccSids == {"", "1", "2", "3"}

\* collector.py:1346-1360  _parse_ap: no text is 0.0, else the number in it
parse_ap(text) ==
    CASE text = "" -> 0
      [] text = "50" -> 50
      [] text = "100" -> 100

\* the records of accsaber_ranking.json: the overall AP is never empty
AccRecords == [scoresaber_id : AccSids, total_ap : ApTexts \ {""}, true_ap : ApTexts]

\* the cached ranking is the overall leaderboard in the order it was served:
\* total_ap descending, and no ScoreSaber id twice
AccRankings ==
    { s \in UNION { [1..n -> AccRecords] : n \in 0..MaxAccPlayers } :
        /\ \A i \in 1..Len(s) : \A j \in 1..Len(s) :
               i < j => /\ parse_ap(s[i].total_ap) >= parse_ap(s[j].total_ap)
                        /\ (s[i].scoresaber_id # "" =>
                                s[i].scoresaber_id # s[j].scoresaber_id) }

\* collector.py:1427-1436  the countries of the index: everyone in JP, player 2
\* in the US, player 1 without entry
IndexMaps ==
    { [i \in AccSids \ {""} |-> "JP"],
      [i \in AccSids \ {""} |-> IF i = "2" THEN "US" ELSE "JP"],
      [i \in AccSids \ {""} |-> IF i = "1" THEN "" ELSE "JP"] }

\* collector.py:1440-1450  same_country_players
SameCountryMutant(ps, index, country) ==
    SelectSeq(ps, LAMBDA p : p.scoresaber_id # "")

SameCountry(ps, index, country) ==
    SelectSeq(ps, LAMBDA p : /\ p.scoresaber_id # ""
                             /\ index[p.scoresaber_id] = country)

\* collector.py:1456-1460  filtered
Filtered(ps, get_ap) ==
    SelectSeq(ps, LAMBDA p : parse_ap(p[get_ap]) >= ACCSABER_MIN_AP_SKILL)

\* the greatest AP of a non-empty list
BestAp(ps, get_ap) ==
    CHOOSE a \in {parse_ap(ps[i][get_ap]) : i \in 1..Len(ps)} :
        \A i \in 1..Len(ps) : parse_ap(ps[i][get_ap]) <= a

\* the position sorted() takes next: the sort is stable, also with
\* reverse=True, so among equal APs the earliest of the input comes first
PickNextMutant(ps, get_ap) ==
    CHOOSE i \in 1..Len(ps) :
        /\ parse_ap(ps[i][get_ap]) = BestAp(ps, get_ap)
        /\ \A j \in 1..Len(ps) : parse_ap(ps[j][get_ap]) = BestAp(ps, get_ap) => j <= i

PickNext(ps, get_ap) ==
    CHOOSE i \in 1..Len(ps) :
        /\ parse_ap(ps[i][get_ap]) = BestAp(ps, get_ap)
        /\ \A j \in 1..Len(ps) : parse_ap(ps[j][get_ap]) = BestAp(ps, get_ap) => i <= j

\* collector.py:1464-1468  sorted(filtered, key=..., reverse=True)
RECURSIVE SortedByAp(_, _)
SortedByAp(ps, get_ap) ==
    IF ps = <<>> THEN <<>>
    ELSE LET i == PickNext(ps, get_ap)
         IN  <<ps[i]>> \o SortedByAp(SubSeq(ps, 1, i - 1) \o SubSeq(ps, i + 1, Len(ps)),
                                     get_ap)

\* collector.py:1469-1475  the 1-based position of the target, None without it
PositionOf(ps, id) ==
    IF \E i \in 1..Len(ps) : ps[i].scoresaber_id = id
    THEN Some(CHOOSE i \in 1..Len(ps) :
                  /\ ps[i].scoresaber_id = id
                  /\ \A j \in 1..(i - 1) : ps[j].scoresaber_id # id)
    ELSE None

\* collector.py:1453-1475  _rank_for
rank_for(pool, get_ap, id) ==
    IF Filtered(pool, get_ap) = <<>> THEN None
    ELSE PositionOf(SortedByAp(Filtered(pool, get_ap), get_ap), id)

\* collector.py:1332-1335, 1420-1480  the whole block; a later snapshot of the
\* same player runs it again on the same caches
AccCountryRanks ==
    /\ rkpc \in {"rank", "done"}
    /\ rkpc' = "done"
    /\ IF acc_ranking # <<>> /\ scoresaber_country # ""
       THEN LET pool == SameCountry(acc_ranking, ss_country_by_id, scoresaber_country)
            IN  /\ same_country_players' = pool
                /\ IF pool # <<>>
                   THEN /\ players_sorted' =
                              [c \in RankCategories |-> SortedByAp(Filtered(pool, c), c)]
                        /\ acc_rank_country' =
                              [c \in RankCategories |-> rank_for(pool, c, scoresaber_id)]
                   ELSE /\ players_sorted' = [c \in RankCategories |-> <<>>]
                        /\ acc_rank_country' = [c \in RankCategories |-> None]
       ELSE /\ same_country_players' = <<>>
            /\ players_sorted' = [c \in RankCategories |-> <<>>]
            /\ acc_rank_country' = [c \in RankCategories |-> None]
    /\ UNCHANGED <<acc_ranking, ss_country_by_id, scoresaber_id, scoresaber_country>>
    /\ UNCHANGED <<coreVars, parseVars, catVars, scoreVars, starVars, tailVars>>

\* the target is the player 1, at any place of the cached ranking or out of
\* it; its country is the one of its ScoreSaber record
\* (collector.py:1196-1198), None without a record
InitAccRank ==
    /\ IdleCore
    /\ IdleParse
    /\ IdleCatalog
    /\ IdleScores
    /\ IdleStars
    /\ IdleTail
    /\ acc_ranking \in AccRankings
    /\ ss_country_by_id \in IndexMaps
    /\ scoresaber_id = "1"
    /\ scoresaber_country \in {"JP", ""}
    /\ scoresaber_country = "" => ss_country_by_id = [i \in AccSids \ {""} |-> "JP"]
    /\ rkpc = "rank"
    /\ same_country_players = <<>>
    /\ players_sorted = [c \in RankCategories |-> <<>>]
    /\ acc_rank_country = [c \in RankCategories |-> None]

NextAccRank == AccCountryRanks

SpecAccRank == InitAccRank /\ [][NextAccRank]_vars

(***************************************************************************)
(* The star-tier aggregators: _collect_star_stats_from_scoresaber           *)
(* (collector/scoresaber.py:612-842) and collect_beatleader_star_stats      *)
(* (collector/beatleader.py:526-684), one call.  The catalog and the play   *)
(* history are what the two getters of the service returned.                *)
(***************************************************************************)
\* the catalog holds at most MaxStarCharts charts, the history MaxPlays plays
MaxStarCharts == 3
MaxPlays == 2

\* star ratings in tenths: 4.5 and 5.2
StarValues == {45, 52}

\* "ranked": a chart the aggregator counts; "dropped": one it passes over
\* (ScoreSaber: deleted is true or ranked is false; BeatLeader: status # 3)
ChartKinds == {"ranked", "dropped"}

\* the modifiers of a play
Modifiers == {"", "NF", "SS"}

\* the catalogs: the chart at position i has the id i
StarCatalogs ==
    { s \in UNION { [1..n -> [id : 1..MaxStarCharts, stars : StarValues,
                              kind : ChartKinds]] : n \in 0..MaxStarCharts } :
        \A i \in 1..Len(s) : s[i].id = i }

\* the histories: a play is of a chart of the catalog or of one that is not
\* in it (an id above the catalog's length), and carries the star rating the
\* service gave with the score
PlayHistories ==
    UNION { [1..k -> [id : 1..MaxStarCharts, stars : StarValues, modifiers : Modifiers]] :
              k \in 0..MaxPlays }

\* scoresaber.py:653, 719-720  beatleader.py:567  int(stars)
StarTier(stars) == stars \div 10

\* scoresaber.py:634-660  beatleader.py:545-573  the charts that are counted
CountedCharts(maps) == {i \in 1..Len(maps) : maps[i].kind = "ranked"}

\* scoresaber.py:662  beatleader.py:575  leaderboard_star_bucket
LeaderboardStarBucket(maps) ==
    [id \in {maps[i].id : i \in CountedCharts(maps)} |-> StarTier(maps[id].stars)]

\* scoresaber.py:663  beatleader.py:576  star_map_count
StarMapCount(maps) ==
    [t \in {StarTier(maps[i].stars) : i \in CountedCharts(maps)} |->
        Cardinality({i \in CountedCharts(maps) : StarTier(maps[i].stars) = t})]

\* the tier of a play.  ScoreSaber takes it from the rating that comes with
\* the play, the catalog lookup being commented out (scoresaber.py:710-722);
\* BeatLeader passes over a chart out of leaderboard_star_bucket and takes the
\* tier from there (beatleader.py:603-606)
PlayBucket(agg, p, bucket) ==
    IF agg = "scoresaber" THEN Some(StarTier(p.stars))
    ELSE IF p.id \in DOMAIN bucket THEN Some(bucket[p.id])
    ELSE None

\* scoresaber.py:731-750  beatleader.py:608-629  one play
WithPlay(agg, state, p, bucket) ==
    IF PlayBucket(agg, p, bucket) = None THEN state
    ELSE LET old == IF p.id \in DOMAIN state THEN state[p.id]
                    ELSE [star |-> PlayBucket(agg, p, bucket)[1],
                          clear |-> FALSE, nf |-> FALSE, ss |-> FALSE]
             new == IF p.modifiers = "NF" THEN [old EXCEPT !.nf = TRUE]
                    ELSE IF p.modifiers = "SS" THEN [old EXCEPT !.ss = TRUE]
                    ELSE [old EXCEPT !.clear = TRUE]
         IN  [i \in DOMAIN state \cup {p.id} |-> IF i = p.id THEN new ELSE state[i]]

\* scoresaber.py:683-776  beatleader.py:588-635  the loop over the scores
RECURSIVE PerLeaderboard(_, _, _)
PerLeaderboard(agg, plays, bucket) ==
    IF plays = <<>> THEN <<>>
    ELSE WithPlay(agg, PerLeaderboard(agg, SubSeq(plays, 1, Len(plays) - 1), bucket),
                  plays[Len(plays)], bucket)

\* scoresaber.py:780-800  beatleader.py:637-652  a chart counts once
CountOf(state, t, what) ==
    Cardinality({i \in DOMAIN state :
        /\ state[i].star = t
        /\ CASE what = "clear" -> state[i].clear
             [] what = "nf" -> ~state[i].clear /\ state[i].nf
             [] what = "ss" -> ~state[i].clear /\ ~state[i].nf /\ state[i].ss})

\* scoresaber.py:803-840  beatleader.py:654-682  a StarClearStat per tier of
\* star_map_count
StarStats(counts, state) ==
    [t \in DOMAIN counts |->
        [star |-> t, map_count |-> counts[t],
         clear_count |-> CountOf(state, t, "clear"),
         nf_count |-> CountOf(state, t, "nf"),
         ss_count |-> CountOf(state, t, "ss")]]

\* the whole call; without a counted chart it returns [] before the scores
\* are read (scoresaber.py:665-667, beatleader.py:578-579)
CollectStarStats ==
    /\ stpc = "collect"
    /\ stpc' = "done"
    /\ star_map_count' = StarMapCount(ranked_maps)
    /\ IF StarMapCount(ranked_maps) = <<>>
       THEN /\ per_leaderboard' = <<>>
            /\ stats' = <<>>
       ELSE /\ per_leaderboard' =
                  PerLeaderboard(aggregator, played, LeaderboardStarBucket(ranked_maps))
            /\ stats' = StarStats(StarMapCount(ranked_maps), per_leaderboard')
    /\ UNCHANGED <<aggregator, ranked_maps, played>>
    /\ UNCHANGED <<coreVars, parseVars, catVars, scoreVars, accRankVars, tailVars>>

InitStars ==
    /\ IdleCore
    /\ IdleParse
    /\ IdleCatalog
    /\ IdleScores
    /\ IdleAccRank
    /\ IdleTail
    /\ aggregator \in {"scoresaber", "beatleader"}
    /\ ranked_maps \in StarCatalogs
    /\ played \in PlayHistories
    /\ stpc = "collect"
    /\ star_map_count = <<>>
    /\ per_leaderboard = <<>>
    /\ stats = <<>>

NextStars == CollectStarStats

SpecStars == InitStars /\ [][NextStars]_vars

(***************************************************************************)
(* The accuracy extractors: _extract_scoresaber_accuracy                    *)
(* (collector/scoresaber.py:844-890) and _extract_beatleader_accuracy       *)
(* (collector/beatleader.py:483-523), one call.  Accuracies are counted in  *)
(* hundredths: 100 is the fraction 1.0, 10000 is 100.0, 1000000 is 10000.0. *)
(***************************************************************************)
\* the value under a key of the record: missing, a number, or a text that is
\* no number
NoValue == [k |-> "none", v |-> 0]
Num(n) == [k |-> "num", v |-> n]
Text == [k |-> "text", v |-> 0]

\* the direct accuracies: -1.0, 0, 0.5, 1.0, 95.0, 100.0, 150.0, 9500.0,
\* 10000.0, 15000.0
DirectValues == {-100, 0, 50, 100, 9500, 10000, 15000, 950000, 1000000, 1500000}

\* the score records
ScoreInfos ==
    [accuracy : {NoValue, Text} \cup {Num(n) : n \in DirectValues},
     acc : {NoValue, Num(9500)},
     baseScore : {NoValue, Num(90), Num(120)},
     score : {NoValue, Num(80)},
     modifiedScore : {NoValue, Num(80)},
     maxScore : {NoValue, Num(0), Num(100)}]

\* scoresaber.py:857-859, 876-879  beatleader.py:493-495, 509-511
\* x.get(k1), and x.get(k2) when that is None
FirstOf(info, k1, k2) == IF info[k1].k # "none" THEN info[k1] ELSE info[k2]

\* scoresaber.py:865-874  beatleader.py:501-507  a direct accuracy above 0
DirectAccuracyMutant(h) ==
    IF h < 100 THEN Some(h * 100)
    ELSE IF h <= 10000 THEN Some(h)
    ELSE IF h <= 1000000 THEN Some(h \div 100)
    ELSE None

DirectAccuracy(h) ==
    IF h <= 100 THEN Some(h * 100)
    ELSE IF h <= 10000 THEN Some(h)
    ELSE IF h <= 1000000 THEN Some(h \div 100)
    ELSE None

\* scoresaber.py:880-888  beatleader.py:512-521  base / max * 100, clamped
FromScores(base, max_score) ==
    IF base.k = "none" \/ max_score.k = "none" THEN None
    ELSE IF base.k = "text" \/ max_score.k = "text" THEN None
    ELSE IF max_score.v <= 0 THEN None
    ELSE Some(Max(0, Min(10000, (base.v * 10000) \div max_score.v)))

\* the extractor x on the record: the two differ in the second key of the
\* base score (scoresaber.py:878-879 "score", beatleader.py:510-511
\* "modifiedScore")
ExtractAccuracy(x, info) ==
    LET direct == FirstOf(info, "accuracy", "acc")
        base == FirstOf(info, "baseScore",
                        IF x = "scoresaber" THEN "score" ELSE "modifiedScore")
    IN  IF direct.k = "text" THEN None
        ELSE IF direct.k = "num" /\ direct.v > 0 /\ DirectAccuracy(direct.v) # None
             THEN DirectAccuracy(direct.v)
        ELSE FromScores(base, info.maxScore)

ExtractCall ==
    /\ xpc = "extract"
    /\ xpc' = "done"
    /\ extracted' = ExtractAccuracy(extractor, score_info)
    /\ UNCHANGED <<extractor, score_info>>
    /\ UNCHANGED <<coreVars, midVars, loadVars, blScoreVars>>

InitAccuracy ==
    /\ IdleCore
    /\ IdleMid
    /\ IdleLoad
    /\ IdleBlScores
    /\ extractor \in {"scoresaber", "beatleader"}
    /\ score_info \in ScoreInfos
    /\ xpc = "extract"
    /\ extracted = None

NextAccuracy == ExtractCall

SpecAccuracy == InitAccuracy /\ [][NextAccuracy]_vars

(***************************************************************************)
(* Snapshot.load and Snapshot.save (snapshot.py:135-227): a snapshot file   *)
(* is loaded, the Snapshot is saved, and the saved file is loaded again.    *)
(* A JSON object is a function of its keys; an element of a star-stat list  *)
(* is [t |-> "dict", d |-> object] or, for anything else, [t |-> "text"].   *)
(* clear_rate is counted in percent, average_acc in hundredths.             *)
(***************************************************************************)
MaxStats == 2

\* snapshot.py:61-80  the fields of StarClearStat, and those without default
StatFields ==
    {"star", "map_count", "clear_count", "nf_count", "ss_count", "clear_rate", "average_acc"}

StatRequired == {"star", "map_count", "clear_count", "nf_count"}

\* a record as the present version saves it
FullStat ==
    [star |-> 3, map_count |-> 5, clear_count |-> 2, nf_count |-> 1, ss_count |-> 1,
     clear_rate |-> 40, average_acc |-> Some(9500)]

OnlyKeys(s, keys) == [k \in keys |-> s[k]]

\* the objects met in the star-stat lists of snapshot files: the present
\* format, the format before ss_count (with and without average_acc and
\* clear_rate), the first format (snapshot.py:176), and an object with a key
\* that StarClearStat does not know
StatObjects ==
    {FullStat,
     [FullStat EXCEPT !.average_acc = None, !.ss_count = 0],
     OnlyKeys(FullStat, StatFields \ {"ss_count"}),
     OnlyKeys(FullStat, StatFields \ {"ss_count", "average_acc"}),
     OnlyKeys(FullStat, StatRequired),
     [star |-> 3, cleared |-> 5, ranked_cleared |-> 2, clear_rate |-> 40],
     [star |-> 3, cleared |-> 5],
     [star |-> 3, map_count |-> 5, clear_count |-> 2, nf_count |-> 1, rank |-> 7]}

BlStatObjects ==
    {FullStat,
     OnlyKeys(FullStat, StatFields \ {"ss_count", "average_acc"}),
     [star |-> 3, map_count |-> 5, clear_count |-> 2, nf_count |-> 1, rank |-> 7]}

Dict(s) == [t |-> "dict", d |-> s]

NotDict == [t |-> "text"]

StatLists(objects) ==
    UNION {[1..n -> {Dict(s) : s \in objects} \cup {NotDict}] : n \in 0..MaxStats}

SnapshotFiles ==
    [steam_id : {"1"},
     star_stats : StatLists(StatObjects),
     beatleader_star_stats : StatLists(BlStatObjects)]

\* s.get(k, d)
Get(s, k, d) == IF k \in DOMAIN s THEN s[k] ELSE d

\* snapshot.py:168, 170, 210  StarClearStat(**s) raises TypeError for an
\* unknown key and for a missing field that has no default
Accepts(s) == DOMAIN s \subseteq StatFields /\ StatRequired \subseteq DOMAIN s

\* snapshot.py:167-170, 207-210  ss_count = 0 when the key is missing, then
\* StarClearStat(**s) with the defaults of snapshot.py:78-80
NewStatMutant(s) ==
    [star |-> s.star, map_count |-> s.map_count, clear_count |-> s.clear_count,
     nf_count |-> s.nf_count, ss_count |-> Get(s, "ss_count", s.nf_count),
     clear_rate |-> Get(s, "clear_rate", 0), average_acc |-> Get(s, "average_acc", None)]

NewStat(s) ==
    [star |-> s.star, map_count |-> s.map_count, clear_count |-> s.clear_count,
     nf_count |-> s.nf_count, ss_count |-> Get(s, "ss_count", 0),
     clear_rate |-> Get(s, "clear_rate", 0), average_acc |-> Get(s, "average_acc", None)]

\* snapshot.py:176-191  the first format
OldStat(s) ==
    LET star == Get(s, "star", 0)
        cleared == Get(s, "cleared", 0)
        ranked_cleared == Get(s, "ranked_cleared", cleared)
        clear_rate == Get(s, "clear_rate", 0)
    IN  [star |-> star, map_count |-> cleared, clear_count |-> ranked_cleared,
         nf_count |-> IF cleared > ranked_cleared THEN cleared - ranked_cleared ELSE 0,
         ss_count |-> 0, clear_rate |-> clear_rate, average_acc |-> None]

\* snapshot.py:156-193  the loop over star_stats
RECURSIVE ConvertStarStats(_)
ConvertStarStats(raw) ==
    IF raw = <<>> THEN <<>>
    ELSE LET e == Head(raw)
             rest == ConvertStarStats(Tail(raw))
         IN  IF e.t # "dict" THEN rest
             ELSE IF {"map_count", "clear_count", "nf_count"} \cap DOMAIN e.d # {}
                      /\ Accepts(e.d)
                  THEN <<NewStat(e.d)>> \o rest
             ELSE <<OldStat(e.d)>> \o rest

\* snapshot.py:198-212  the loop over beatleader_star_stats
RECURSIVE ConvertBlStarStats(_)
ConvertBlStarStats(raw) ==
    IF raw = <<>> THEN <<>>
    ELSE LET e == Head(raw)
             rest == ConvertBlStarStats(Tail(raw))
         IN  IF e.t # "dict" THEN rest
             ELSE IF Accepts(e.d) THEN <<NewStat(e.d)>> \o rest
             ELSE rest

\* snapshot.py:150-227  Snapshot.load on the document
load(data) ==
    [steam_id |-> data.steam_id,
     star_stats |-> ConvertStarStats(data.star_stats),
     beatleader_star_stats |-> ConvertBlStarStats(data.beatleader_star_stats)]

\* snapshot.py:141-143  asdict of each StarClearStat: an object with all
\* seven keys
AsDicts(stat_list) == [k \in 1..Len(stat_list) |-> Dict(stat_list[k])]

\* snapshot.py:135-148  the document that Snapshot.save writes
save(snapshot) ==
    [steam_id |-> snapshot.steam_id,
     star_stats |-> AsDicts(snapshot.star_stats),
     beatleader_star_stats |-> AsDicts(snapshot.beatleader_star_stats)]

LoadCall ==
    /\ lpc = "load"
    /\ loaded' = load(snap_json)
    /\ lpc' = "save"
    /\ UNCHANGED <<snap_json, saved_json, reloaded>>
    /\ UNCHANGED <<coreVars, midVars, extractVars, blScoreVars>>

SaveCall ==
    /\ lpc = "save"
    /\ saved_json' = save(loaded)
    /\ lpc' = "reload"
    /\ UNCHANGED <<snap_json, loaded, reloaded>>
    /\ UNCHANGED <<coreVars, midVars, extractVars, blScoreVars>>

ReloadCall ==
    /\ lpc = "reload"
    /\ reloaded' = load(saved_json)
    /\ lpc' = "done"
    /\ UNCHANGED <<snap_json, loaded, saved_json>>
    /\ UNCHANGED <<coreVars, midVars, extractVars, blScoreVars>>

InitLoad ==
    /\ IdleCore
    /\ IdleMid
    /\ IdleExtract
    /\ IdleBlScores
    /\ snap_json \in SnapshotFiles
    /\ lpc = "load"
    /\ loaded = <<>>
    /\ saved_json = <<>>
    /\ reloaded = <<>>

NextLoad == LoadCall \/ SaveCall \/ ReloadCall

SpecLoad == InitLoad /\ [][NextLoad]_vars

(***************************************************************************)
(* _get_beatleader_player_scores (collector/beatleader.py:292-454) called   *)
(* again and again over its own cache file.  A score item is its chart id,  *)
(* the timeset that _extract_leaderboard_timeset_from_score_item reads      *)
(* from it (None when it has none) and the rest of its content v.  The      *)
(* score map (a dict, ordered by insertion) is a sequence of items with     *)
(* distinct ids.                                                            *)
(***************************************************************************)
\* the count parameter (page_size, beatleader.py:333: 100 in the program)
BlPageSize == 1

BlChartIds == {1, 2}

BlItems ==
    [id : BlChartIds, ts : {Some(1), Some(2)}, v : {"a", "b"}]
    \cup [id : BlChartIds, ts : {None}, v : {"a"}]

\* what the service lists for the player: one item per chart (type=best)
BlHistories ==
    {<<>>}
    \cup {<<x>> : x \in BlItems}
    \cup {h \in BlItems \X BlItems : h[1].id # h[2].id}

\* beatleader.py:321-329  totalPlayCount of the player's statistics, None
\* when they could not be read
PlayCountTargets == {None, Some(1)}

BlPageItems(h, p) == SubSeq(h, (p - 1) * BlPageSize + 1, Min(p * BlPageSize, Len(h)))

NoBlFile == [kind |-> "absent", scores |-> <<>>]

\* beatleader.py:72-89  the file that _save_cached_player_scores writes
SavedBlFile(map) == [kind |-> "valid", scores |-> map]

\* beatleader.py:53-69  _load_cached_player_scores
LoadedBlScores(f) == IF f.kind = "valid" THEN Some(f.scores) ELSE None

HasId(map, i) == \E k \in 1..Len(map) : map[k].id = i

ItemOf(map, i) == map[CHOOSE k \in 1..Len(map) : map[k].id = i]

\* d[lb_id] = item on a dict: in place for a key that is there, at the end
\* for a new key
Put(map, item) ==
    IF HasId(map, item.id)
    THEN [k \in 1..Len(map) |-> IF map[k].id = item.id THEN item ELSE map[k]]
    ELSE Append(map, item)

\* beatleader.py:409  new_ts is not None and (old_ts is None or new_ts > old_ts)
TimesetUpdatedMutant(new_ts, old_ts) ==
    new_ts # None /\ (old_ts = None \/ new_ts[1] >= old_ts[1])

TimesetUpdated(new_ts, old_ts) ==
    new_ts # None /\ (old_ts = None \/ new_ts[1] > old_ts[1])

\* beatleader.py:379-416  the loop over the items of a page: the map after
\* it, and page_has_diff
RECURSIVE MergeItems(_, _, _)
MergeItems(items, cached, acc) ==
    IF items = <<>> THEN acc
    ELSE LET item == Head(items)
             changed ==
                 \/ ~HasId(cached, item.id)
                 \/ TimesetUpdated(item.ts, ItemOf(cached, item.id).ts)
             next ==
                 IF changed
                 THEN [map |-> Put(acc.map, item), page_has_diff |-> TRUE]
                 ELSE IF ~HasId(acc.map, item.id)
                      THEN [acc EXCEPT !.map = Put(acc.map, ItemOf(cached, item.id))]
                      ELSE acc
         IN  MergeItems(Tail(items), cached, next)

\* beatleader.py:356-370  the estimated number of pages (300 and 100 are the
\* program's caps)
MaxPagesBl(total) ==
    IF total > 0 THEN Min((total + BlPageSize - 1) \div BlPageSize, 300) ELSE 100

\* beatleader.py:440  the sort key
TimesetKey(item) == IF item.ts = None THEN 0 ELSE item.ts[1]

\* beatleader.py:438-442  sorted(..., reverse=True): descending and stable
RECURSIVE SortedByTimeset(_)
SortedByTimeset(map) ==
    IF map = <<>> THEN <<>>
    ELSE LET top == SetMax({TimesetKey(map[k]) : k \in 1..Len(map)})
             i == Min(Len(map),
                      SetMax({0 - k : k \in {j \in 1..Len(map) : TimesetKey(map[j]) = top}}) * (0 - 1))
         IN  <<map[i]>> \o SortedByTimeset(SubSeq(map, 1, i - 1) \o SubSeq(map, i + 1, Len(map)))

\* beatleader.py:304-329  the call begins: the cache is loaded and the play
\* count is asked for; the service lists h during the call
BlScoresBegin ==
    /\ blpc \in {"idle", "done"}
    /\ \E h \in BlHistories : bl_server' = h
    /\ \E t \in PlayCountTargets : total_play_count_target' = t
    /\ blScFile0' = blScFile
    /\ LET c == LoadedBlScores(blScFile) IN
       /\ cached_scores' = IF c = None THEN <<>> ELSE c[1]
       /\ scores_by_lb_id' = IF c = None THEN <<>> ELSE c[1]
    /\ bl_page' = 1
    /\ bl_returned' = <<>>
    /\ bl_raised' = FALSE
    /\ blpc' = "page"
    /\ UNCHANGED blScFile
    /\ UNCHANGED <<coreVars, midVars, extractVars, loadVars>>

\* beatleader.py:334-432  one turn of the page loop, the request answered r
BlScoresPage(r) ==
    /\ blpc = "page"
    /\ CASE r = "404" ->
              /\ blpc' = "save"
              /\ UNCHANGED <<scores_by_lb_id, bl_page, bl_raised>>
         [] r = "error" ->
              \* raise_for_status (line 350) leaves the getter
              /\ blpc' = "done"
              /\ bl_raised' = TRUE
              /\ UNCHANGED <<scores_by_lb_id, bl_page>>
         [] r = "ok" ->
              LET items == BlPageItems(bl_server, bl_page)
                  merged == MergeItems(items, cached_scores,
                                       [map |-> scores_by_lb_id, page_has_diff |-> FALSE])
                  reached ==
                      /\ total_play_count_target # None
                      /\ Len(merged.map) >= total_play_count_target[1]
                      /\ ~merged.page_has_diff
              IN  /\ bl_raised' = FALSE
                  /\ IF items = <<>>
                     THEN /\ blpc' = "save"
                          /\ UNCHANGED <<scores_by_lb_id, bl_page>>
                     ELSE /\ scores_by_lb_id' = merged.map
                          /\ IF \/ reached
                                \/ Len(items) < BlPageSize
                                \/ bl_page >= MaxPagesBl(Len(bl_server))
                             THEN blpc' = "save" /\ UNCHANGED bl_page
                             ELSE bl_page' = bl_page + 1 /\ UNCHANGED blpc
    /\ UNCHANGED <<bl_server, blScFile, blScFile0, cached_scores, total_play_count_target,
                   bl_returned>>
    /\ UNCHANGED <<coreVars, midVars, extractVars, loadVars>>

\* beatleader.py:434-454  the map is sorted, saved and returned
BlScoresSave ==
    /\ blpc = "save"
    /\ IF scores_by_lb_id # <<>>
       THEN LET sorted_items == SortedByTimeset(scores_by_lb_id)
            IN  /\ blScFile' = SavedBlFile(sorted_items)
                /\ bl_returned' = sorted_items
       ELSE /\ bl_returned' = <<>>
            /\ UNCHANGED blScFile
    /\ blpc' = "done"
    /\ UNCHANGED <<bl_server, blScFile0, cached_scores, scores_by_lb_id, bl_page,
                   total_play_count_target, bl_raised>>
    /\ UNCHANGED <<coreVars, midVars, extractVars, loadVars>>

InitBlScores ==
    /\ IdleCore
    /\ ~sticky
    /\ IdleMid
    /\ IdleExtract
    /\ IdleLoad
    /\ bl_server = <<>>
    /\ blScFile = NoBlFile
    /\ blScFile0 = NoBlFile
    /\ blpc = "idle"
    /\ cached_scores = <<>>
    /\ scores_by_lb_id = <<>>
    /\ bl_page = 1
    /\ total_play_count_target = None
    /\ bl_returned = <<>>
    /\ bl_raised = FALSE

NextBlScores ==
    \/ BlScoresBegin
    \/ \E r \in {"ok", "404", "error"} : BlScoresPage(r)
    \/ BlScoresSave

SpecBlScores == InitBlScores /\ [][NextBlScores]_vars

(***************************************************************************)
(* The ranking refresh of create_snapshot_for_steam_id (collector.py:       *)
(* 1052-1073) when every request is answered successfully and the callback  *)
(* never raises: the actions of the snapshot call up to the return of       *)
(* ensure_global_rank_caches, with the successful outcome of every request. *)
(***************************************************************************)
NextRefresh ==
    \/ SnapBegin
    \/ SnapEnsureEnd
    \/ \E prof \in BOOLEAN : EnsureBegin(prof)
    \/ \E c \in {"", "JP", "US"} : ResolveCountry(c)
    \/ AccStep(FALSE)
    \/ AccFetch("ok")
    \/ EnrichStep(FALSE)
    \/ EnrichFetch("ok")
    \/ SsStep(FALSE)
    \/ SsFetch("ok")
    \/ BlStart
    \/ FetchProgress(FALSE)
    \/ FetchRequest("ok")
    \/ BlEnd
    \/ RebuildStep(FALSE)
    \/ ReadyStep(FALSE)

SpecRefresh == InitSnap /\ [][NextRefresh]_vars

(***************************************************************************)
(* Claims about fetch_players_ranking                                       *)
(***************************************************************************)
AtOrAbove(s, t) == SelectSeq(s, LAMBDA p : p.pp >= t)

\* the pages whose last record is below the threshold
PagesBelow(s, t) ==
    {p \in 1..(Len(s) + 1) : PageItems(s, p) # <<>>
                             /\ PageItems(s, p)[Len(PageItems(s, p))].pp < t}

NoOverFetch == \A p \in PagesBelow(svc, min_pp) : page <= p

FetchAnsweredThroughout == fpc = "done" /\ fresult = "returned" /\ allOk /\ min_pp > 0

\* C9 as stated: with min_pp = T > 0, a strictly descending service and every
\* request answered, the result is exactly the players with pp >= T, in service
\* order, and no page is requested after the first page whose last record is
\* below T.
C9_AllAboveThreshold ==
    FetchAnsweredThroughout =>
        /\ players = AtOrAbove(svc, min_pp)
        /\ NoOverFetch

\* C9 amended: the result is exactly the players with pp >= T that lie on the
\* first max_pages pages, in service order, and no page is requested after the
\* first page whose last record is below T.
C9_AboveThresholdWithinMaxPages ==
    FetchAnsweredThroughout =>
        /\ players = AtOrAbove(SubSeq(svc, 1, Min(Len(svc), max_pages * PageSize)), min_pp)
        /\ NoOverFetch

\* a call that stopped on the threshold page, on its second page, with some
\* players kept and some dropped
C9_Witness ==
    /\ FetchAnsweredThroughout
    /\ page = 2
    /\ PagesBelow(svc, min_pp) # {}
    /\ Len(players) >= 1
    /\ Len(players) < Len(svc)

C2_CancelStopsRanking ==
    signalled =>
        /\ ~requestAfterSignal
        /\ (epc = "done" => eresult = "raised")

\* C11: an HTTP 404 on a page of the ScoreSaber ranking ends the pagination
\* normally: the players kept from the earlier pages are saved to
\* scoresaber_ranking.json and the fetch goes on to BeatLeader without the
\* failure branch.  (Stated for a 404 that comes after players were kept.)
C11_NotFoundEndsPagination ==
    [][ (SsFetch("404") /\ ss_players # <<>>) =>
            /\ epc' = "bl"
            /\ ssFile' = Some(ss_players) ]_vars

\* the players kept from the first k pages of the BeatLeader ranking
RECURSIVE BlKeptUpTo(_)
BlKeptUpTo(k) ==
    IF k = 0 THEN <<>>
    ELSE BlKeptUpTo(k - 1) \o KeptOfPage(PageItems(svc, k), BEATLEADER_MIN_PP_GLOBAL)

\* the pagination of the BeatLeader ranking ends normally after page k
BlEndsAfter(k) ==
    \/ k = MaxPagesArg
    \/ PageItems(svc, k + 1) = <<>>
    \/ /\ k >= 1
       /\ PageItems(svc, k) # <<>>
       /\ \/ BelowThreshold(PageItems(svc, k), BEATLEADER_MIN_PP_GLOBAL)
          \/ Len(PageItems(svc, k)) < PageSize

SsPageOf(k) == PageItems(OfCountry(ssSvc, target_country), k)

RECURSIVE SsKeptUpTo(_)
SsKeptUpTo(k) ==
    IF k = 0 THEN <<>>
    ELSE SsKeptUpTo(k - 1) \o SsKeptOfPage(SsPageOf(k), target_country)

SsEndsAfter(k) ==
    \/ k = MaxPagesArg
    \/ SsPageOf(k + 1) = <<>>
    \/ /\ k >= 1
       /\ SsPageOf(k) # <<>>
       /\ SsPageOf(k)[Len(SsPageOf(k))].pp < SCORESABER_MIN_PP_GLOBAL

AccIdsOf(list) == [i \in 1..Len(list) |-> list[i].scoresaber_id]

\* C29: a ranking cache file is replaced only by the result of a fetch that
\* ran to its normal end: the list written is the list of a pagination that
\* ended normally, never the truncated list of a fetch that broke off.
C29_FileReplacedOnlyByCompleteFetch ==
    [][ /\ blFile' # blFile =>
            \E k \in 0..MaxPagesArg :
                /\ BlEndsAfter(k)
                /\ blFile' = Some(OfCountry(BlKeptUpTo(k), target_country))
        /\ ssFile' # ssFile =>
            \E k \in 0..MaxPagesArg :
                /\ SsEndsAfter(k)
                /\ ssFile' = Some(SsKeptUpTo(k))
        /\ accFile' # accFile =>
            /\ accFile' # None
            /\ AccIdsOf(accFile'[1]) =
                   AccIdsOf(SelectSeq(accSvc, LAMBDA p : p.total_ap >= ACCSABER_MIN_AP_GLOBAL))
      ]_vars

(***************************************************************************)
(* Claims about create_snapshot_for_steam_id                                *)
(***************************************************************************)
\* C1: when the callback raises at one of its invocations during
\* create_snapshot_for_steam_id, whichever stage the invocation belongs to,
\* the call is aborted: from then on no stage is run, no snapshot file is
\* written, and the call ends with the cancellation.
C1_CancelAbortsSnapshot ==
    [][ (signalled /\ ~sticky) =>
            /\ ~requestAfterSignal'
            /\ snapFiles' = snapFiles
            /\ (spc' = "done" => sresult' = "cancelled") ]_vars

\* C3: without a cancellation, create_snapshot_for_steam_id fails exactly when
\* the player is neither in the index nor found by either direct fetch; in
\* every other case it returns and the snapshot is in the snapshot directory.
C3_FailsOnlyWhenUnresolved ==
    (spc = "done" /\ ~signalled) =>
        /\ (sresult = "failed") <=> (ss = None /\ bl = None)
        /\ (sresult # "failed") =>
               /\ sresult = "returned"
               /\ SnapshotPath(steam, now) \in DOMAIN snapFiles

\* C5: a snapshot file, once written, is never written again nor removed.
C5_SnapshotsAreNeverOverwritten ==
    [][ \A p \in DOMAIN snapFiles :
            p \in DOMAIN snapFiles' /\ snapFiles'[p] = snapFiles[p] ]_vars

C30_RefreshLeavesAllRankFiles ==
    spc = "ss_maps_step" => ~NeedRankingFetch

(***************************************************************************)
(* Claims about the index rebuild and the cache writes                      *)
(***************************************************************************)
IdsOf(s) == {s[i].id : i \in 1..Len(s)}

\* C6: after rebuild_player_index_from_global the index file holds exactly
\* one entry for each player id of the cached ScoreSaber and BeatLeader rankings.
C6_RebuildIndexesEveryRankedPlayer ==
    epc = "done" =>
        /\ Exists(idxFile)
        /\ DOMAIN idxFile[1] = IdsOf(CachedList(ssFile)) \cup IdsOf(CachedList(blFile))

\* the ScoreSaber players of the cache that share the normalized name and the
\* country of the player b
SameNameCountry(b) ==
    {p \in SeqRange(CachedList(ssFile)) :
        NormName(p.name) = NormName(b.name) /\ p.country = b.country}

C4_CacheWriteIsAtomic ==
    /\ ~torn
    /\ (wresult = "failed" => ssFile = wprev)

(***************************************************************************)
(* Claims about the leaderboard clients                                     *)
(***************************************************************************)
ValidPositions(pg) == SelectSeq([i \in 1..Len(pg) |-> i], LAMBDA i : pg[i] = "valid")

OneMalformedAmongValid(pg) ==
    /\ Cardinality({i \in 1..Len(pg) : pg[i] # "valid"}) = 1
    /\ \E i \in 1..Len(pg) : pg[i] = "valid"

\* C12: a page with one malformed entry among valid ones is parsed without
\* failure and every valid entry of the page is returned, in page order.
C12_MalformedEntryIsSkipped ==
    (ppc = "done" /\ OneMalformedAmongValid(entries)) =>
        /\ presult = "returned"
        /\ SelectSeq(parsed, LAMBDA i : entries[i] = "valid") = ValidPositions(entries)

(***************************************************************************)
(* Claims about the ranked-catalogue getters                                *)
(***************************************************************************)
\* the call is over, began with a cache of an earlier call, and every request
\* it sent was answered 200
CatAnsweredWithCache ==
    /\ cpc = "done"
    /\ catFile0.kind = "valid"
    /\ creqs >= 1
    /\ cok

\* C13: with a valid cache and a page 1 that reports the cached total, the
\* getter sends exactly one request, returns the cached catalogue and does
\* not write the cache file.
C13_SameTotalOneRequest ==
    (CatAnsweredWithCache /\ Len(catalog) = catFile0.total) =>
        /\ creqs = 1
        /\ cresult = "returned"
        /\ returned = catFile0.charts
        /\ ~cwritten
        /\ catFile = catFile0

C13_Witness ==
    /\ CatAnsweredWithCache
    /\ Len(catalog) = catFile0.total
    /\ cservice = "beatleader"
    /\ Len(catalog) > CatPageSize

\* C14: with a valid cache and a page 1 that reports another total, larger or
\* smaller, the getter refetches: it returns the service's catalogue and the
\* cache file holds it afterwards.
C14_ChangedTotalRefetches ==
    (CatAnsweredWithCache /\ Len(catalog) # catFile0.total) =>
        /\ cresult = "returned"
        /\ returned = catalog
        /\ cwritten
        /\ catFile.kind = "valid"
        /\ catFile.charts = catalog

\* C16 (catalogue getters): a cache file that is no JSON or has the wrong
\* shape is treated as absent, and the getter does not fail because of it.
C16_BadCacheIsAbsent ==
    (cpc = "done" /\ cok /\ catFile0.kind \in {"corrupt", "notobject", "badelement"}) =>
        /\ cresult = "returned"
        /\ ~hadCache

\* C26: from an empty ScoreSaber cache and with every request answered 200,
\* the getter fetches every page: it returns the service's whole catalogue,
\* as many distinct charts as the metadata total reports, and the cache file
\* holds it with that total, so that a second call finds the cache current
\* (no file is written for a service without ranked charts).
C26_ColdCacheFetchesAllPages ==
    (/\ cpc = "done"
     /\ cservice = "scoresaber"
     /\ catFile0.kind = "absent"
     /\ creqs >= 1
     /\ cok) =>
        /\ cresult = "returned"
        /\ Len(returned) = Len(catalog)
        /\ returned = catalog
        /\ catFile.kind \in {"absent", "valid"}
        /\ catFile.charts = catalog
        /\ CacheIsCurrent(Len(catalog), catFile.total)

(***************************************************************************)
(* Claims about the score-history refresh                                   *)
(***************************************************************************)
\* C15: once a page answered with no record newer than the cache's
\* fetched_at, the refresh sends no further request; and when that page is
\* page 1 of the check, the call has sent exactly one request and leaves the
\* cache file as it was.
C15_RefreshStopsAtStalePage ==
    [][ /\ staleSeen => sreqs' = sreqs
        /\ (scpc' = "done" /\ checkOk'
               /\ (history = <<>> \/ history[1] <= scFile0.fetched_at)) =>
              /\ sreqs' = 1
              /\ scFile' = scFile0
              /\ ~scWritten' ]_vars

\* a refresh that fetched a page of new scores and then met the stale page
C15_Witness ==
    /\ scpc = "done"
    /\ staleSeen
    /\ sreqs = 3
    /\ scWritten

\* how often the score set at the time t stands in the list
TimesIn(list, t) == Cardinality({k \in 1..Len(list) : list[k] = t})

\* C27: after a refresh that merged new pages with the cached pages, the
\* merged history (returned and saved) holds every score of the previous
\* cache and every newly fetched score exactly once.
C27_MergeKeepsEveryRecordOnce ==
    (scpc = "done" /\ scWritten) =>
        \A t \in SeqRange(ItemsOf(scFile0.pages)) \cup SeqRange(ItemsOf(new_pages)) :
            /\ TimesIn(scores, t) = 1
            /\ TimesIn(ItemsOf(scFile.pages), t) = 1

(***************************************************************************)
(* Claims about the AccSaber country ranks (SpecAccRank).                   *)
(***************************************************************************)
\* the pool of a category as the specification describes it: the cached
\* players whose ScoreSaber id the index maps to the target's country and
\* whose AP of the category reaches the threshold
PoolOf(c) ==
    SelectSeq(acc_ranking,
              LAMBDA p : /\ p.scoresaber_id # ""
                         /\ ss_country_by_id[p.scoresaber_id] = scoresaber_country
                         /\ parse_ap(p[c]) >= ACCSABER_MIN_AP_SKILL)

CountIn(s, r) == Cardinality({i \in 1..Len(s) : s[i] = r})

\* the ranks were computed for a target with a country
RanksComputed == rkpc = "done" /\ scoresaber_country # ""

\* C17: for every category the ranked list is the pool of the category (the
\* cached players of the target's country, by the index, with AP >= the
\* threshold), sorted descending by AP; the target's rank is its 1-based
\* position in it, and the positions of the pool's players are exactly 1..N.
C17_RankIsPositionInSortedPool ==
    RanksComputed =>
        \A c \in RankCategories :
            LET pool == PoolOf(c)
                s == players_sorted[c]
            IN  /\ Len(s) = Len(pool)
                /\ \A i \in 1..Len(pool) : CountIn(s, pool[i]) = CountIn(pool, pool[i])
                /\ \A i \in 1..Len(s) : \A j \in 1..Len(s) :
                       i < j => parse_ap(s[i][c]) >= parse_ap(s[j][c])
                /\ {PositionOf(s, pool[i].scoresaber_id) : i \in 1..Len(pool)}
                       = {Some(k) : k \in 1..Len(pool)}
                /\ acc_rank_country[c] = PositionOf(s, scoresaber_id)
                /\ (\A i \in 1..Len(pool) : pool[i].scoresaber_id # scoresaber_id)
                       => acc_rank_country[c] = None

\* the index puts one cached player in another country, the sort reorders
\* the two left, and the target is the second of them
C17_Witness ==
    /\ RanksComputed
    /\ Len(acc_ranking) = 3
    /\ Len(PoolOf("true_ap")) = 2
    /\ \E i \in 1..3 : /\ acc_ranking[i].scoresaber_id # ""
                       /\ ss_country_by_id[acc_ranking[i].scoresaber_id] = "US"
    /\ players_sorted["true_ap"] # PoolOf("true_ap")
    /\ acc_rank_country["true_ap"] = Some(2)

\* C18: among players of equal AP the one earlier in the cached ranking gets
\* the lower rank number (100, 100, 50 rank 1, 2, 3 in input order), and
\* running the computation again on the same input gives the same ranks.
C18_TiesKeepInputOrder ==
    [][ /\ RanksComputed' =>
            \A c \in RankCategories :
                LET pool == PoolOf(c)'
                    s == players_sorted'[c]
                IN  /\ \A i \in 1..Len(pool) : \A j \in 1..Len(pool) :
                           (i < j /\ parse_ap(pool[i][c]) = parse_ap(pool[j][c]))
                               => PositionOf(s, pool[i].scoresaber_id)[1]
                                      < PositionOf(s, pool[j].scoresaber_id)[1]
                    /\ (/\ Len(pool) = 3
                        /\ pool[1][c] = "100" /\ pool[2][c] = "100" /\ pool[3][c] = "50")
                           => /\ s = pool
                              /\ \A k \in 1..3 :
                                     pool[k].scoresaber_id = scoresaber_id'
                                         => acc_rank_country'[c] = Some(k)
        /\ rkpc = "done" => /\ acc_rank_country' = acc_rank_country
                            /\ players_sorted' = players_sorted ]_vars

\* players of 100, 100 and 50 AP, the target being the second of the two tied
C18_Witness ==
    /\ RanksComputed
    /\ Len(PoolOf("true_ap")) = 3
    /\ PoolOf("true_ap")[1].true_ap = "100"
    /\ PoolOf("true_ap")[2].true_ap = "100"
    /\ PoolOf("true_ap")[3].true_ap = "50"
    /\ PoolOf("true_ap")[2].scoresaber_id = scoresaber_id
    /\ acc_rank_country["true_ap"] = Some(2)

\* the target is in the cached ranking and in its country by the index
TargetCached(c, text) ==
    \E i \in 1..Len(acc_ranking) :
        /\ acc_ranking[i].scoresaber_id = scoresaber_id
        /\ acc_ranking[i][c] = text

\* C19: a target without score in a category (empty AP in the cached
\* ranking), or with an AP below the threshold, has no country rank for it.
C19_NoScoreNoRank ==
    rkpc = "done" =>
        \A c \in RankCategories :
            (\E t \in ApTexts :
                 /\ TargetCached(c, t)
                 /\ (t = "" \/ parse_ap(t) < ACCSABER_MIN_AP_SKILL))
                => acc_rank_country[c] = None

(***************************************************************************)
(* Claims about the star-tier aggregators (SpecStars).                      *)
(***************************************************************************)
StarTiers == {StarTier(s) : s \in StarValues}

\* the count of a tier in the result, 0 for a tier the result does not have
StatOf(t, field) == IF t \in DOMAIN stats THEN stats[t][field] ELSE 0

\* the plays of the chart i
PlaysOf(i) == {k \in 1..Len(played) : played[k].id = i}

\* the count the plays of the chart i put it in
ClassOf(i) ==
    IF \E k \in PlaysOf(i) : played[k].modifiers \notin {"NF", "SS"} THEN "clear"
    ELSE IF \E k \in PlaysOf(i) : played[k].modifiers = "NF" THEN "nf"
    ELSE "ss"

\* the chart i is counted under `what` in the tier t of the result
CountedIn(i, t, what) ==
    /\ t \in DOMAIN stats
    /\ i \in DOMAIN per_leaderboard
    /\ per_leaderboard[i].star = t
    /\ CASE what = "clear" -> per_leaderboard[i].clear
         [] what = "nf" -> ~per_leaderboard[i].clear /\ per_leaderboard[i].nf
         [] what = "ss" -> /\ ~per_leaderboard[i].clear /\ ~per_leaderboard[i].nf
                           /\ per_leaderboard[i].ss

\* the chart is in the catalog the getter returned
InCatalog(i) == i \in 1..Len(ranked_maps)

\* C20: for every tier map_count is the number of ranked, non-deleted catalog
\* charts of the tier; a played chart among them is counted in exactly one
\* of clear_count, nf_count, ss_count, the one its plays give, and in its own
\* tier; an unplayed one is counted in map_count only.
C20_EachChartCountedOnceInItsTier ==
    (stpc = "done" /\ \A k \in 1..Len(played) : InCatalog(played[k].id)) =>
        /\ \A t \in StarTiers :
               StatOf(t, "map_count") =
                   Cardinality({i \in CountedCharts(ranked_maps) :
                                    StarTier(ranked_maps[i].stars) = t})
        /\ \A i \in CountedCharts(ranked_maps) :
               \A t \in StarTiers : \A what \in {"clear", "nf", "ss"} :
                   CountedIn(i, t, what) <=>
                       /\ PlaysOf(i) # {}
                       /\ t = StarTier(ranked_maps[i].stars)
                       /\ what = ClassOf(i)

\* C21: a play of a chart that is not in the catalog is ignored: the chart is
\* in no count of a tier of the result.
C21_PlayOutOfCatalogIsIgnored ==
    stpc = "done" =>
        \A k \in 1..Len(played) :
            ~InCatalog(played[k].id) =>
                \A t \in StarTiers : \A what \in {"clear", "nf", "ss"} :
                    ~CountedIn(played[k].id, t, what)

\* C22: every StarClearStat of the result has map_count >= 1 and
\* 0 <= clear_count <= map_count.
C22_ClearCountWithinMapCount ==
    stpc = "done" =>
        \A t \in DOMAIN stats :
            /\ stats[t].map_count >= 1
            /\ 0 <= stats[t].clear_count
            /\ stats[t].clear_count <= stats[t].map_count

(***************************************************************************)
(* Claims about the accuracy extractors (SpecAccuracy).                     *)
(***************************************************************************)
\* the direct accuracy of the record: the key accuracy, else the key acc
DirectOf(info) == IF info.accuracy.k # "none" THEN info.accuracy ELSE info.acc

\* base score / max score of the record as a percentage in 0..100, None when
\* one of them is missing or max score is not positive
ScoreRatio(x, info) ==
    LET base == IF info.baseScore.k # "none" THEN info.baseScore
                ELSE IF x = "scoresaber" THEN info.score ELSE info.modifiedScore
    IN  IF base.k = "num" /\ info.maxScore.k = "num" /\ info.maxScore.v > 0
        THEN LET r == (base.v * 10000) \div info.maxScore.v
             IN  Some(IF r > 10000 THEN 10000 ELSE IF r < 0 THEN 0 ELSE r)
        ELSE None

C24_Rejects150 ==
    (xpc = "done" /\ DirectOf(score_info) = Num(15000)) =>
        extracted = ScoreRatio(extractor, score_info)

\* the star-stat objects of the format before ss_count
OldFormat(e) == e.t = "dict" /\ Accepts(e.d) /\ "ss_count" \notin DOMAIN e.d

AllOldFormat(raw) == raw # <<>> /\ \A k \in 1..Len(raw) : OldFormat(raw[k])

KeepsFields(raw, stat_list) ==
    /\ Len(stat_list) = Len(raw)
    /\ \A k \in 1..Len(raw) :
        /\ stat_list[k].ss_count = 0
        /\ \A f \in DOMAIN raw[k].d : stat_list[k][f] = raw[k].d[f]

\* C25: a snapshot file whose star-stat records lack the ss_count key loads
\* with ss_count = 0 and every other field of each record kept, and saving
\* the loaded snapshot and loading it again gives an equal snapshot
C25_OldFormatLoadsAndRoundTrips ==
    /\ (lpc # "load" /\ AllOldFormat(snap_json.star_stats)) =>
           KeepsFields(snap_json.star_stats, loaded.star_stats)
    /\ (lpc # "load" /\ AllOldFormat(snap_json.beatleader_star_stats)) =>
           KeepsFields(snap_json.beatleader_star_stats, loaded.beatleader_star_stats)
    /\ lpc = "done" => reloaded = loaded

C25_Witness ==
    /\ lpc = "done"
    /\ Len(snap_json.star_stats) = 2
    /\ AllOldFormat(snap_json.star_stats)
    /\ AllOldFormat(snap_json.beatleader_star_stats)
    /\ "average_acc" \notin DOMAIN snap_json.star_stats[1].d
    /\ loaded.star_stats[1].ss_count = 0
    /\ loaded.star_stats[1].map_count = 5
    /\ reloaded = loaded

(***************************************************************************)
(* Claims about the BeatLeader score map                                    *)
(***************************************************************************)
BlIdsOf(map) == {map[k].id : k \in 1..Len(map)}

OneRecordPerId(map) == \A j, k \in 1..Len(map) : map[j].id = map[k].id => j = k

StrictlyNewer(new_ts, old_ts) ==
    new_ts # None /\ (old_ts = None \/ new_ts[1] > old_ts[1])

\* C28: over every refresh, every chart id of the cache before the refresh is
\* in the cache afterwards, each chart id has one record, and a cached record
\* is replaced only by a fetched record with a strictly newer timeset (a
\* cached record without timeset counts as older than any timeset).
C28_CacheNeverLosesOrRegresses ==
    /\ OneRecordPerId(blScFile.scores)
    /\ OneRecordPerId(bl_returned)
    /\ \A i \in BlIdsOf(blScFile0.scores) :
        /\ i \in BlIdsOf(blScFile.scores)
        /\ LET old == ItemOf(blScFile0.scores, i)
               new == ItemOf(blScFile.scores, i)
           IN  new # old =>
                   /\ HasId(bl_server, i)
                   /\ \E k \in 1..bl_page : new \in SeqRange(BlPageItems(bl_server, k))
                   /\ StrictlyNewer(new.ts, old.ts)

\* a refresh replaced the record of chart 1 by a newer one and kept the
\* record of chart 2 although the service lists another one of the same
\* timeset
C28_Witness ==
    /\ blpc = "done"
    /\ ~bl_raised
    /\ HasId(blScFile0.scores, 1) /\ HasId(blScFile0.scores, 2)
    /\ ItemOf(blScFile0.scores, 1).ts = Some(1)
    /\ ItemOf(blScFile.scores, 1).ts = Some(2)
    /\ HasId(bl_server, 2)
    /\ ItemOf(bl_server, 2) # ItemOf(blScFile0.scores, 2)
    /\ ItemOf(bl_server, 2).ts = ItemOf(blScFile0.scores, 2).ts
    /\ ItemOf(blScFile.scores, 2) = ItemOf(blScFile0.scores, 2)
    /\ bl_page = 2
====
